---- MODULE Spec2Model ----
(***************************************************************************)
(* A model of the liquid-glass repository: the displacement-map caches     *)
(* and their fallbacks, the pointer tracking of the glass components, the  *)
(* size handling of useGlassBehavior and the field rasterizer.             *)
(***************************************************************************)
EXTENDS Integers, Sequences, FiniteSets, TLC

VARIABLES
    \* ---- displacement maps (displacement-maps.ts, getMap.ts, part_000)
    displacementCache,     \* Map<string,string> of displacement-maps.ts / generate-displacement-map
    legacyCache,           \* Map<string,string> of part_000 (the SSR-safe generator)
    extractedModeCache,    \* Map<string,string> of the optimized generator
    firstResult,           \* history: what the first request of each key returned
    mapCalls,              \* history: number of sized calls made so far
    lastCall,              \* what the last call was given and what it returned
    \* ---- pointer tracking (part_009 with part_008, part_007, index.tsx)
    component,             \* which component tracks the pointer
    mounted,               \* glassRef.current is set and the mousemove listener registered
    isDragging,            \* the isDragging state
    rafIdRef,              \* rafIdRef.current, 0 for undefined
    rafQueue,              \* the browser's pending animation-frame callbacks
    nextRafId,             \* the id the next requestAnimationFrame returns
    internalGlobalMousePos,
    internalMouseOffset,
    borderGradientRef,
    overlayGradientRef,
    lastMove,              \* history: the last mousemove event received
    movesSinceFrame,       \* history: mousemove events since the last frame boundary
    updatesSinceFrame,     \* history: pointer-state updates since the last frame boundary
    justStored,            \* history: the last step was a frame whose callback stored the pointer
    \* ---- panel size (useGlassBehavior of part_002, index.tsx, liquid-glass.tsx)
    width,                 \* the width prop, Undefined when not passed
    height,                \* the height prop, Undefined when not passed
    contentRect,           \* what measureRef.current.getBoundingClientRect() returns
    glassSize,             \* the glassSize state
    contentMeasured,       \* the contentMeasured state
    initialTimeout,        \* the 0 ms timeout of the initial measurement is pending
    resizeTimeoutRef,      \* ms left on the debounce timeout, NoTimeout when none is pending
    observerPending,       \* the ResizeObserver owes the notification that follows observe()
    measureQueue,          \* pending animation-frame callbacks of updateGlassSize
    canvasSize,            \* the size updateShader last rasterized the field for
    sinceChange,           \* history: ms since the last size change, at most debounceMs
    burstChanges,          \* history: size changes in the current burst, at most 2
    burstRasters,          \* history: sizes rasterized since the current burst began
    \* ---- the field rasterizer (generateDisplacementMapData of displacement-maps.ts)
    fieldType,             \* the type argument
    fieldWidth,            \* the width argument
    fieldHeight,           \* the height argument
    maxScale,              \* maxScale after the first loop
    pixelCount,            \* pixels the second loop has encoded
    pixel,                 \* the pixel the second loop encoded last
    modeCount,             \* pixels createModeSpecificMap (getMap.ts) has stored
    modePixel,             \* the pixel createModeSpecificMap stored last
    divisor,               \* which rasterizer ran its first loop last, and its maxScale
    \* ---- the elastic estimator (useElasticEffects of part_003, part_007, index.tsx)
    elasticity,            \* the elasticity prop, Undefined when not passed
    estimate,              \* what the last render read and what the estimator returned
    previousEstimate,      \* history: the estimate of the render before
    renderCount,           \* history: pointer moves handled so far
    tracker,               \* which component stores the pointer for the estimator
    pointer,               \* history: where the pointer is, stored or not
    \* ---- the SVG filters (GlassFilter of displacement-maps.ts and part_007, AdvancedGlassFilter of index.tsx)
    filterComponent,       \* which filter component is rendered
    filterMode,            \* its mode prop
    displacementScale,     \* its displacementScale prop
    aberrationIntensity,   \* its aberrationIntensity prop
    filterGraph,           \* the filter primitives of the <filter> it rendered, in order
    shaderMapUrl,          \* the shaderMapUrl state of the panel that renders the filter
    shaderEffectPending,   \* the effect that generates the shader map has yet to run
    feImageHref,           \* the href the filter's feImage was rendered with
    \* ---- the panel's position (useGlassBehavior of part_002)
    initialPosition,       \* the initialPosition prop, NoPosition when not passed
    draggable,             \* the draggable prop
    position,              \* the position state
    drag,                  \* the closure of the drag in progress, NoDrag when none
    viewport,              \* window.innerWidth and window.innerHeight
    panelSize,             \* the glassSize state the position is constrained with
    dragMoved,             \* history: a drag movement was processed
    dragCount,             \* history: drags begun so far
    lastPositionEvent,     \* history: the last event handled
    dragActive,            \* the isDragging state of useGlassBehavior
    listeners,             \* the drag listeners registered on the document
    press,                 \* history: the position before the press, and whether
                           \* a mousemove of it went beyond the threshold
    lastDragMove,          \* history: the last mousemove of the drag
    constrainCall          \* history: the last call of constrainPosition

mapVars == <<displacementCache, legacyCache, extractedModeCache, firstResult, mapCalls, lastCall>>

pointerVars == <<component, mounted, isDragging, rafIdRef, rafQueue, nextRafId,
                 internalGlobalMousePos, internalMouseOffset, borderGradientRef,
                 overlayGradientRef, lastMove, movesSinceFrame, updatesSinceFrame, justStored>>

sizeVars == <<width, height, contentRect, glassSize, contentMeasured, initialTimeout,
              resizeTimeoutRef, observerPending, measureQueue, canvasSize,
              sinceChange, burstChanges, burstRasters>>

rasterVars == <<fieldType, fieldWidth, fieldHeight, maxScale, pixelCount, pixel,
                modeCount, modePixel, divisor>>

elasticVars == <<elasticity, estimate, previousEstimate, renderCount, tracker, pointer>>

filterVars == <<filterComponent, filterMode, displacementScale, aberrationIntensity, filterGraph,
                shaderMapUrl, shaderEffectPending, feImageHref>>

positionVars == <<initialPosition, draggable, position, drag, viewport, panelSize,
                  dragMoved, dragCount, lastPositionEvent, dragActive, listeners,
                  press, lastDragMove, constrainCall>>

vars == <<mapVars, pointerVars, sizeVars, rasterVars, elasticVars, filterVars, positionVars>>

notMapVars == <<pointerVars, sizeVars, rasterVars, elasticVars, filterVars, positionVars>>

notPointerVars == <<mapVars, sizeVars, rasterVars, elasticVars, filterVars, positionVars>>

notSizeVars == <<mapVars, pointerVars, rasterVars, elasticVars, filterVars, positionVars>>

notRasterVars == <<mapVars, pointerVars, sizeVars, elasticVars, filterVars, positionVars>>

notElasticVars == <<mapVars, pointerVars, sizeVars, rasterVars, filterVars, positionVars>>

notFilterVars == <<mapVars, pointerVars, sizeVars, rasterVars, elasticVars, positionVars>>

notPositionVars == <<mapVars, pointerVars, sizeVars, rasterVars, elasticVars, filterVars>>

(***************************************************************************)
(* Bounds of the model.                                                    *)
(***************************************************************************)
MaxDim == 2
MaxCalls == 2
MaxPointerIdx == 2
MaxMovesPerFrame == 2
MaxRafId == 3

(***************************************************************************)
(* Displacement maps                                                       *)
(***************************************************************************)
DefaultSize == 256

ValidTypes == {"standard", "polar", "prominent"}

\* A type the TypeScript signature rules out but a caller can pass at run time.
Types == ValidTypes \cup {"bogus"}

\* Widths and heights a caller can pass: negative, zero and positive ones.
Dims == (-1) .. MaxDim

\* A data URL is modelled by what it encodes: the image format and the raster
\* (type, width, height) whose pixels it carries.  fmt "empty" is the string "".
Url(fmt, type, w, h) == [fmt |-> fmt, type |-> type, w |-> w, h |-> h]

EmptyString == Url("empty", "none", 0, 0)

\* "data:image/gif;base64,R0lGODlhAQABAIAAAAAAAP///yH5BAEAAAAALAAAAAABAAEAAAIBRAA7"
Placeholder == Url("gif", "none", 1, 1)

NoValue == Url("none", "none", 0, 0)

\* JavaScript truthiness of a string.
Truthy(url) == url.fmt # "empty"

Return(v) == [kind |-> "return", val |-> v]
Throw == [kind |-> "throw", val |-> NoValue]

\* The environment of one call: typeof window/document, whether
\* canvas.getContext("2d") yields a context, whether the encoder
\* (canvas.toDataURL / btoa) succeeds, whether the optimized module loads.
Envs == [window : BOOLEAN, ctx2d : BOOLEAN, encode : BOOLEAN, optModule : BOOLEAN]

\* `${type}-${width}-${height}`: one string per (type, width, height).
CacheKey(type, w, h) == <<type, w, h>>

\* `extracted-${type}`
ExtractedKey(type) == <<"extracted", type>>

\* Number of pixels the two nested loops of a rasterizer visit.
LoopPixels(w, h) == IF w > 0 /\ h > 0 THEN w * h ELSE 0

\* generateDisplacementMapData as far as the callers see it: it throws a
\* RangeError for a negative array length, a TypeError when the loops call the
\* undefined fragment of an unknown type, and otherwise returns the raster.
generateDisplacementMapData(type, w, h) ==
    IF w * h * 4 < 0 THEN Throw
    ELSE IF LoopPixels(w, h) > 0 /\ type \notin ValidTypes THEN Throw
    ELSE Return(Url("raw", type, w, h))

createCanvasDataUrl(imageData, w, h, env) ==
    IF ~env.ctx2d THEN EmptyString                 \* throw "Could not get 2D context", caught
    ELSE IF w = 0 \/ h = 0 THEN EmptyString         \* createImageData: IndexSizeError, caught
    ELSE IF ~env.encode THEN EmptyString            \* toDataURL throws, caught
    ELSE Url("png", imageData.type, w, h)

createServerDataUrl(imageData, w, h, env) ==
    IF ~env.encode THEN Placeholder                \* catch: the 1x1 gif
    ELSE Url("bmp", imageData.type, w, h)

\* A call's effect: the result, the cache afterwards, how many times
\* generateDisplacementMapData ran, and whether generating the field failed.
Effect(res, cache, runs, failed) ==
    [res |-> res, cache |-> cache, runs |-> runs, failed |-> failed]

\* The failures of the canvas encoder and of the server encoder.
CanvasFails(w, h, env) == ~env.ctx2d \/ w = 0 \/ h = 0 \/ ~env.encode

ServerFails(env) == ~env.encode

EncodeFails(w, h, env) == IF env.window THEN CanvasFails(w, h, env) ELSE ServerFails(env)

CacheSet(cache, key, url) ==
    [k \in DOMAIN cache \cup {key} |-> IF k = key THEN url ELSE cache[k]]

\* displacement-maps.ts (and the copy in generate-displacement-map)
generateDisplacementMap(cache, type, w, h, env) ==
    LET cacheKey == CacheKey(type, w, h)
        hit == cacheKey \in DOMAIN cache /\ Truthy(cache[cacheKey])
        imageData == generateDisplacementMapData(type, w, h)
        dataUrl == IF env.window
                   THEN createCanvasDataUrl(imageData.val, w, h, env)
                   ELSE createServerDataUrl(imageData.val, w, h, env)
    IN  IF hit THEN Effect(Return(cache[cacheKey]), cache, 0, FALSE)
        ELSE IF imageData.kind = "throw"
             THEN Effect(Return(Placeholder), cache, 1, TRUE)
        ELSE Effect(Return(dataUrl), CacheSet(cache, cacheKey, dataUrl), 1,
                    EncodeFails(w, h, env))

\* part_000: has() decides the hit, and only a truthy URL is stored
generateDisplacementMapLegacy(cache, type, w, h, env) ==
    LET cacheKey == CacheKey(type, w, h)
        imageData == generateDisplacementMapData(type, w, h)
        dataUrl == IF env.window
                   THEN createCanvasDataUrl(imageData.val, w, h, env)
                   ELSE createServerDataUrl(imageData.val, w, h, env)
    IN  IF cacheKey \in DOMAIN cache THEN Effect(Return(cache[cacheKey]), cache, 0, FALSE)
        ELSE IF imageData.kind = "throw"
             THEN Effect(Return(Placeholder), cache, 1, TRUE)
        ELSE Effect(Return(dataUrl),
                    IF Truthy(dataUrl) THEN CacheSet(cache, cacheKey, dataUrl) ELSE cache,
                    1, EncodeFails(w, h, env))

\* createModeSpecificMap of the optimized generator: throws without a 2D
\* context, for a zero-sized ImageData and when the encoder throws; its
\* switch has no default, so an unknown mode yields a flat map.
createModeSpecificMap(mode, w, h, env) ==
    IF CanvasFails(w, h, env) THEN Throw
    ELSE Return(Url("png-mode", mode, w, h))

\* The effect of a call on both caches.
MapEffect(res, cache, ext, runs, failed) ==
    [res |-> res, cache |-> cache, ext |-> ext, runs |-> runs, failed |-> failed]

generateOptimizedDisplacementMap(cache, ext, type, w, h, env) ==
    LET cacheKey == ExtractedKey(type)
        hit == cacheKey \in DOMAIN ext /\ Truthy(ext[cacheKey])
        modeData == IF ~env.window THEN Throw ELSE createModeSpecificMap(type, w, h, env)
        fallback == generateDisplacementMap(cache, type, w, h, env)
    IN  IF hit THEN MapEffect(Return(ext[cacheKey]), cache, ext, 0, FALSE)
        ELSE IF modeData.kind = "return"
             THEN MapEffect(modeData, cache, CacheSet(ext, cacheKey, modeData.val), 0, FALSE)
        ELSE MapEffect(fallback.res, fallback.cache, ext, fallback.runs, fallback.failed)

\* getMap with the optimized generator outside any try: what the optimized
\* path throws reaches the caller.
getMapUnguarded(cache, ext, mode, env) ==
    LET optimized == generateOptimizedDisplacementMap(cache, ext, mode,
                                                      DefaultSize, DefaultSize, env)
        cpu == generateDisplacementMap(cache, mode, DefaultSize, DefaultSize, env)
    IN  IF env.window
        THEN (IF env.optModule /\ mode \in ValidTypes THEN optimized
              ELSE MapEffect(Throw, cache, ext, 0, FALSE))
        ELSE IF mode \in ValidTypes
             THEN MapEffect(cpu.res, cpu.cache, ext, cpu.runs, cpu.failed)
        ELSE MapEffect(Throw, cache, ext, 0, FALSE)

\* getMap of getMap.ts: in a browser the optimized generator inside a try
\* whose catch falls through to the CPU generator; both at the default size.
\* An unknown mode throws in the try, is caught, and throws again after it.
getMap(cache, ext, mode, env) ==
    LET optimized == generateOptimizedDisplacementMap(cache, ext, mode,
                                                      DefaultSize, DefaultSize, env)
        tryBlock == IF ~env.optModule THEN MapEffect(Throw, cache, ext, 0, FALSE)
                    ELSE IF mode \in ValidTypes THEN optimized
                    ELSE MapEffect(Throw, cache, ext, 0, FALSE)
        cpu == generateDisplacementMap(cache, mode, DefaultSize, DefaultSize, env)
    IN  IF env.window /\ tryBlock.res.kind = "return" THEN tryBlock
        ELSE IF mode \in ValidTypes
             THEN MapEffect(cpu.res, cpu.cache, ext, cpu.runs, cpu.failed)
        ELSE MapEffect(Throw, cache, ext, 0, FALSE)

\* What a call was and what came of it; requested says whether its key had
\* been requested before.
CallRecord(fn, type, w, h, eff, requested) ==
    [fn |-> fn, type |-> type, w |-> w, h |-> h, res |-> eff.res,
     runs |-> eff.runs, failed |-> eff.failed, requested |-> requested]

NoCall ==
    [fn |-> "none", type |-> "none", w |-> 0, h |-> 0, res |-> Return(NoValue),
     runs |-> 0, failed |-> FALSE, requested |-> FALSE]

EmptyCache == [k \in {} |-> NoValue]

InitMaps ==
    /\ displacementCache = EmptyCache
    /\ legacyCache = EmptyCache
    /\ extractedModeCache = EmptyCache
    /\ firstResult = EmptyCache
    /\ mapCalls = 0
    /\ lastCall = NoCall

(***************************************************************************)
(* Pointer tracking                                                        *)
(***************************************************************************)
\* The components that track the pointer: LiquidGlass of part_008 through the
\* useMouseTracking hook of part_009, EnhancedLiquidGlass of part_007, and
\* LiquidGlass of index.tsx.
Throttled == {"useMouseTracking", "EnhancedLiquidGlass"}

Components == Throttled \cup {"LiquidGlass"}

\* The panel's bounding rectangle while the pointer is tracked; mouseContainer
\* is null, so the container is the panel itself.
GlassRect == [left |-> 300, top |-> 300, width |-> 100, height |-> 50]

\* mousemove events: clientX and clientY on a grid that has points over the
\* panel, inside the activation zone and outside it.
PointerEvents == {[clientX |-> 150 * i, clientY |-> 150 * j] : i, j \in 0 .. MaxPointerIdx}

NoEvent == [clientX |-> -1, clientY |-> -1]

Abs(n) == IF n < 0 THEN -n ELSE n

Max(a, b) == IF a >= b THEN a ELSE b

Min(a, b) == IF a <= b THEN a ELSE b

\* Twice the distances of the event to the panel's edge, per axis (twice, to
\* keep the half sizes integral).
EdgeDistanceX2(e, rect) ==
    Max(0, Abs(2 * e.clientX - (2 * rect.left + rect.width)) - rect.width)

EdgeDistanceY2(e, rect) ==
    Max(0, Abs(2 * e.clientY - (2 * rect.top + rect.height)) - rect.height)

activationZone == 200

\* edgeDistance <= activationZone, on the squares of the doubled distances
InActivationZone(e, rect) ==
    EdgeDistanceX2(e, rect) * EdgeDistanceX2(e, rect)
      + EdgeDistanceY2(e, rect) * EdgeDistanceY2(e, rect)
        <= (2 * activationZone) * (2 * activationZone)

\* Offsets and gradient parameters are kept in thousandths.
\* newMouseOffset = ((e.client - center) / rect.size) * 100
MouseOffset(e, rect) ==
    [x |-> ((2 * e.clientX - (2 * rect.left + rect.width)) * 50000) \div rect.width,
     y |-> ((2 * e.clientY - (2 * rect.top + rect.height)) * 50000) \div rect.height]

GlobalMousePos(e) == [x |-> e.clientX, y |-> e.clientY]

BorderGradient(off) ==
    [angle |-> 135000 + (off.x * 12) \div 10,
     opacity1 |-> 120 + (Abs(off.x) * 8) \div 1000,
     opacity2 |-> 400 + (Abs(off.x) * 12) \div 1000,
     stop1 |-> Max(10000, 33000 + (off.y * 3) \div 10),
     stop2 |-> Min(90000, 66000 + (off.y * 4) \div 10)]

OverlayGradient(off) ==
    [angle |-> 135000 + (off.x * 12) \div 10,
     opacity1 |-> 320 + (Abs(off.x) * 8) \div 1000,
     opacity2 |-> 600 + (Abs(off.x) * 12) \div 1000,
     stop1 |-> Max(10000, 33000 + (off.y * 3) \div 10),
     stop2 |-> Min(90000, 66000 + (off.y * 4) \div 10)]

InitialGradient(o1, o2) ==
    [angle |-> 135000, opacity1 |-> o1, opacity2 |-> o2, stop1 |-> 33000, stop2 |-> 66000]

\* The part of the state an animation-frame callback reads and writes.
PointerState(ref, pos, off, border, overlay, updates) ==
    [rafIdRef |-> ref, pos |-> pos, off |-> off, border |-> border,
     overlay |-> overlay, updates |-> updates]

\* The pointer-state update both throttled callbacks end with.
StorePointer(st, cb) ==
    LET off == MouseOffset(cb.e, GlassRect)
    IN  PointerState(st.rafIdRef, GlobalMousePos(cb.e), off,
                     IF cb.isDragging THEN st.border ELSE BorderGradient(off),
                     IF cb.isDragging THEN st.overlay ELSE OverlayGradient(off),
                     st.updates + 1)

\* The callback useMouseTracking.handleMouseMove hands to requestAnimationFrame.
TrackingCallback(st, cb, glass) ==
    LET cleared == [st EXCEPT !.rafIdRef = 0]
    IN  IF ~glass THEN cleared
        ELSE IF InActivationZone(cb.e, GlassRect) THEN StorePointer(cleared, cb)
        ELSE cleared

\* The callback EnhancedLiquidGlass.handleMouseMove hands to requestAnimationFrame.
EnhancedCallback(st, cb, glass) ==
    LET cleared == [st EXCEPT !.rafIdRef = 0]
    IN  IF ~glass THEN cleared ELSE StorePointer(cleared, cb)

RunCallback(st, cb, glass) ==
    IF cb.component = "useMouseTracking" THEN TrackingCallback(st, cb, glass)
    ELSE EnhancedCallback(st, cb, glass)

\* The browser runs the pending callbacks in the order they were requested.
RECURSIVE RunCallbacks(_, _, _)
RunCallbacks(st, queue, glass) ==
    IF queue = << >> THEN st
    ELSE RunCallbacks(RunCallback(st, Head(queue), glass), Tail(queue), glass)

IdlePointer ==
    /\ component = "useMouseTracking"
    /\ mounted = TRUE
    /\ isDragging = FALSE
    /\ rafIdRef = 0
    /\ rafQueue = << >>
    /\ nextRafId = 1
    /\ internalGlobalMousePos = [x |-> 0, y |-> 0]
    /\ internalMouseOffset = [x |-> 0, y |-> 0]
    /\ borderGradientRef = InitialGradient(120, 400)
    /\ overlayGradientRef = InitialGradient(320, 600)
    /\ lastMove = NoEvent
    /\ movesSinceFrame = 0
    /\ updatesSinceFrame = 0
    /\ justStored = FALSE

InitPointer ==
    /\ component \in Components
    /\ mounted = TRUE
    /\ isDragging = FALSE
    /\ rafIdRef = 0
    /\ rafQueue = << >>
    /\ nextRafId = 1
    /\ internalGlobalMousePos = [x |-> 0, y |-> 0]
    /\ internalMouseOffset = [x |-> 0, y |-> 0]
    /\ borderGradientRef = InitialGradient(120, 400)
    /\ overlayGradientRef = InitialGradient(320, 600)
    /\ lastMove = NoEvent
    /\ movesSinceFrame = 0
    /\ updatesSinceFrame = 0
    /\ justStored = FALSE

\* handleMouseMove of useMouseTracking and of EnhancedLiquidGlass: skip when a
\* frame is already scheduled, otherwise schedule a callback that closes over
\* this event.
ThrottledMouseMove(e) ==
    /\ component \in Throttled
    /\ mounted
    /\ movesSinceFrame < MaxMovesPerFrame
    /\ lastMove' = e
    /\ movesSinceFrame' = movesSinceFrame + 1
    /\ justStored' = FALSE
    /\ IF rafIdRef # 0
       THEN UNCHANGED <<rafIdRef, rafQueue, nextRafId>>
       ELSE /\ nextRafId <= MaxRafId
            /\ rafIdRef' = nextRafId
            /\ rafQueue' = Append(rafQueue, [id |-> nextRafId, e |-> e,
                                             isDragging |-> isDragging,
                                             component |-> component])
            /\ nextRafId' = nextRafId + 1
    /\ UNCHANGED <<component, mounted, isDragging, internalGlobalMousePos,
                   internalMouseOffset, borderGradientRef, overlayGradientRef,
                   updatesSinceFrame, notPointerVars>>

\* handleMouseMove of LiquidGlass (index.tsx): every event sets the offset and
\* the global position at once.
DirectMouseMove(e) ==
    /\ component = "LiquidGlass"
    /\ mounted
    /\ movesSinceFrame < MaxMovesPerFrame
    /\ lastMove' = e
    /\ movesSinceFrame' = movesSinceFrame + 1
    /\ justStored' = FALSE
    /\ internalMouseOffset' = MouseOffset(e, GlassRect)
    /\ internalGlobalMousePos' = GlobalMousePos(e)
    /\ updatesSinceFrame' = updatesSinceFrame + 1
    /\ UNCHANGED <<component, mounted, isDragging, rafIdRef, rafQueue, nextRafId,
                   borderGradientRef, overlayGradientRef, notPointerVars>>

\* A frame boundary: the browser runs the pending animation-frame callbacks.
AnimationFrame ==
    LET st0 == PointerState(rafIdRef, internalGlobalMousePos, internalMouseOffset,
                            borderGradientRef, overlayGradientRef, 0)
        st == RunCallbacks(st0, rafQueue, mounted)
    IN  /\ rafQueue # << >> \/ movesSinceFrame > 0
        /\ rafQueue' = << >>
        /\ rafIdRef' = st.rafIdRef
        /\ internalGlobalMousePos' = st.pos
        /\ internalMouseOffset' = st.off
        /\ borderGradientRef' = st.border
        /\ overlayGradientRef' = st.overlay
        /\ updatesSinceFrame' = st.updates
        /\ movesSinceFrame' = 0
        /\ justStored' = (st.updates > 0)
        /\ UNCHANGED <<component, mounted, isDragging, nextRafId, lastMove, notPointerVars>>

\* The cleanup cancelling the pending frame and leaving rafIdRef as it is.
CancelWithoutClearing ==
    /\ rafQueue' = IF rafIdRef # 0
                   THEN SelectSeq(rafQueue, LAMBDA cb : cb.id # rafIdRef)
                   ELSE rafQueue
    /\ UNCHANGED rafIdRef

\* The cleanup of the mouse-tracking effect of the throttled components:
\* the listener is removed and a pending frame cancelled.
CancelPendingFrame ==
    /\ rafQueue' = IF rafIdRef # 0
                   THEN SelectSeq(rafQueue, LAMBDA cb : cb.id # rafIdRef)
                   ELSE rafQueue
    /\ rafIdRef' = 0

\* isDragging changes (a drag starts or ends).  handleMouseMove of the
\* throttled components depends on isDragging, so their mouse-tracking effect
\* is cleaned up and run again; handleMouseMove of index.tsx does not.
SetIsDragging ==
    /\ mounted
    /\ isDragging' = ~isDragging
    /\ justStored' = FALSE
    /\ IF component \in Throttled THEN CancelPendingFrame
       ELSE UNCHANGED <<rafIdRef, rafQueue>>
    /\ UNCHANGED <<component, mounted, nextRafId, internalGlobalMousePos,
                   internalMouseOffset, borderGradientRef, overlayGradientRef,
                   lastMove, movesSinceFrame, updatesSinceFrame, notPointerVars>>

\* The component unmounts: the effect cleanup runs and glassRef.current is null.
Unmount ==
    /\ mounted
    /\ mounted' = FALSE
    /\ justStored' = FALSE
    /\ IF component \in Throttled THEN CancelPendingFrame
       ELSE UNCHANGED <<rafIdRef, rafQueue>>
    /\ UNCHANGED <<component, isDragging, nextRafId, internalGlobalMousePos,
                   internalMouseOffset, borderGradientRef, overlayGradientRef,
                   lastMove, movesSinceFrame, updatesSinceFrame, notPointerVars>>

NextPointer ==
    \/ \E e \in PointerEvents : ThrottledMouseMove(e)
    \/ \E e \in PointerEvents : DirectMouseMove(e)
    \/ AnimationFrame
    \/ SetIsDragging
    \/ Unmount


(***************************************************************************)
(* Claims about pointer tracking                                           *)
(***************************************************************************)
\* C3: in every component that tracks the pointer, at most one pointer-state
\* update is performed between two consecutive animation-frame boundaries.
C3_OneUpdatePerFrame == updatesSinceFrame <= 1

\* C4: when the scheduled frame callback of a throttled component stores
\* pointer coordinates, they are those of the last mousemove received before
\* that frame.
C4_LatestEventStored ==
    (component \in Throttled /\ justStored)
    => internalGlobalMousePos = GlobalMousePos(lastMove)

\* C29: in every reachable state rafIdRef is set only while the animation-
\* frame callback it names is pending, so the throttle never locks out: when
\* no callback is pending, the next mousemove schedules one.
C29_FrameRefOnlyWhilePending ==
    rafIdRef # 0 => \E i \in 1 .. Len(rafQueue) : rafQueue[i].id = rafIdRef

\* C29 witness: a frame was scheduled again after the cleanup of the
\* mouse-tracking effect cancelled or a frame ran the one before it.
C29_Witness ==
    /\ component \in Throttled
    /\ isDragging
    /\ rafIdRef >= 2
    /\ Len(rafQueue) = 1
    /\ rafQueue[1].id = rafIdRef

(***************************************************************************)
(* Panel size: useGlassBehavior (part_002), the same effects in index.tsx  *)
(* and the updateShader effect of liquid-glass.tsx                         *)
(***************************************************************************)
MaxPropIdx == 1
MaxContentIdx == 1
MaxMeasureQueue == 1
TickMs == 8

\* An optional number prop that was not passed.
Undefined == -1

\* `n && ...` on an optional number: neither undefined nor 0.
IsSet(n) == n # Undefined /\ n # 0

\* `n ?? d`
OrElse(n, d) == IF n = Undefined THEN d ELSE n

minWidth == 100

minHeight == 50

debounceMs == 16

NoTimeout == -1

\* getPaddingValues of the default padding "24px 32px": two values, the
\* first for top and bottom, the second for right and left.
paddingValues == [top |-> 24, right |-> 32, bottom |-> 24, left |-> 32]

Size(w, h) == [width |-> w, height |-> h]

NoSize == Size(-1, -1)

WidthProps == {Undefined} \cup {120 + 40 * i : i \in 0 .. MaxPropIdx}

HeightProps == {Undefined, 80}

ContentRects == {Size(40 * i, 20 * i) : i \in 0 .. MaxContentIdx}

\* Content rectangles for the auto-sizing alone: those, and content 1 px
\* wider than the minimum width leaves room for.
AutoSizeRects == ContentRects \cup {Size(37, 2)}

\* The hook's state as one value, and what a render's updateGlassSize closes
\* over (its dependency list, padding, children and the minima being fixed).
Hook(w, h, size, measured, initial, timeout, pending, queue, canvas, rasters) ==
    [width |-> w, height |-> h, glassSize |-> size, contentMeasured |-> measured,
     initialTimeout |-> initial, resizeTimeoutRef |-> timeout,
     observerPending |-> pending, measureQueue |-> queue, canvasSize |-> canvas,
     rasters |-> rasters]

Closure(s) == [width |-> s.width, height |-> s.height, glassSize |-> s.glassSize]

\* updateGlassSize: measureRef.current and children are present, so it hands
\* its measuring callback to requestAnimationFrame.
updateGlassSize(s) == [s EXCEPT !.measureQueue = Append(@, Closure(s))]

\* The measuring callback taking content + padding without the minimum.
MeasureCallbackWithoutMinimum(s, c, rect) ==
    IF IsSet(c.width) /\ IsSet(c.height)
    THEN IF c.width # c.glassSize.width \/ c.height # c.glassSize.height
         THEN [s EXCEPT !.glassSize = Size(c.width, c.height)]
         ELSE s
    ELSE LET totalWidth == rect.width + paddingValues.left + paddingValues.right
             totalHeight == rect.height + paddingValues.top + paddingValues.bottom
             newWidth == OrElse(c.width, totalWidth)
             newHeight == OrElse(c.height, totalHeight)
         IN  IF \/ Abs(newWidth - c.glassSize.width) > 1
                \/ Abs(newHeight - c.glassSize.height) > 1
             THEN [s EXCEPT !.glassSize = Size(newWidth, newHeight),
                            !.contentMeasured = TRUE]
             ELSE s

\* The callback updateGlassSize schedules, run with the closure c it was
\* created in and the content rectangle measured now.
MeasureCallback(s, c, rect) ==
    IF IsSet(c.width) /\ IsSet(c.height)
    THEN IF c.width # c.glassSize.width \/ c.height # c.glassSize.height
         THEN [s EXCEPT !.glassSize = Size(c.width, c.height)]
         ELSE s
    ELSE LET totalWidth == rect.width + paddingValues.left + paddingValues.right
             totalHeight == rect.height + paddingValues.top + paddingValues.bottom
             newWidth == OrElse(c.width, Max(totalWidth, minWidth))
             newHeight == OrElse(c.height, Max(totalHeight, minHeight))
         IN  IF \/ Abs(newWidth - c.glassSize.width) > 1
                \/ Abs(newHeight - c.glassSize.height) > 1
             THEN [s EXCEPT !.glassSize = Size(newWidth, newHeight),
                            !.contentMeasured = TRUE]
             ELSE s

\* The effects of one render, given what the previous render closed over:
\* the prop effect, the initial-measurement effect, the ResizeObserver effect
\* and the canvas effect that calls updateShader, each run when one of its
\* dependencies changed; a setGlassSize made by the prop effect renders again.
RECURSIVE Render(_, _, _)
Render(s, prevClosure, prevMeasured) ==
    LET c == Closure(s)
        closureChanged == c # prevClosure
        sizeChanged == c.glassSize # prevClosure.glassSize
        explicit == IsSet(s.width) /\ IsSet(s.height)
        e1 == IF closureChanged /\ ~explicit THEN updateGlassSize(s) ELSE s
        e2 == IF closureChanged \/ s.contentMeasured # prevMeasured
              THEN [e1 EXCEPT !.initialTimeout = ~s.contentMeasured]
              ELSE e1
        e3 == IF closureChanged
              THEN [e2 EXCEPT !.resizeTimeoutRef = NoTimeout, !.observerPending = TRUE]
              ELSE e2
        e4 == IF sizeChanged
              THEN [e3 EXCEPT !.canvasSize = s.glassSize,
                              !.rasters = @ \cup {s.glassSize}]
              ELSE e3
    IN  IF closureChanged /\ explicit /\ Size(s.width, s.height) # s.glassSize
        THEN Render([e4 EXCEPT !.glassSize = Size(s.width, s.height)], c, s.contentMeasured)
        ELSE e4

\* The first render and its effects.
Mount(w, h) ==
    LET size == Size(OrElse(w, minWidth), OrElse(h, minHeight))
        s == Hook(w, h, size, FALSE, TRUE, NoTimeout, TRUE, << >>, size, {size})
    IN  IF IsSet(w) /\ IsSet(h) THEN s ELSE updateGlassSize(s)

\* The animation frame runs the pending callbacks in order; each state
\* update is rendered before the next callback runs.
RECURSIVE RunMeasures(_, _, _)
RunMeasures(s, queue, rect) ==
    IF queue = << >> THEN s
    ELSE RunMeasures(Render(MeasureCallback(s, Head(queue), rect), Closure(s), s.contentMeasured),
                     Tail(queue), rect)

CurrentHook ==
    Hook(width, height, glassSize, contentMeasured, initialTimeout, resizeTimeoutRef,
         observerPending, measureQueue, canvasSize, {})

SetHook(s) ==
    /\ width' = s.width
    /\ height' = s.height
    /\ glassSize' = s.glassSize
    /\ contentMeasured' = s.contentMeasured
    /\ initialTimeout' = s.initialTimeout
    /\ resizeTimeoutRef' = s.resizeTimeoutRef
    /\ observerPending' = s.observerPending
    /\ measureQueue' = s.measureQueue
    /\ canvasSize' = s.canvasSize

\* History of the bursts: a size change less than debounceMs after the
\* previous one continues the burst, a later one begins a new burst; a burst
\* is over, and its history dropped, once debounceMs pass without a change.
SizeChange(rasters) ==
    LET continues == burstChanges > 0 /\ sinceChange < debounceMs
    IN  /\ sinceChange' = 0
        /\ burstChanges' = IF continues THEN Min(2, burstChanges + 1) ELSE 1
        /\ burstRasters' = (IF continues THEN burstRasters ELSE {}) \cup rasters

NoSizeChange(rasters) ==
    /\ burstRasters' = IF burstChanges > 0 THEN burstRasters \cup rasters ELSE {}
    /\ UNCHANGED <<sinceChange, burstChanges>>

SizeState(s, rect) ==
    /\ width = s.width
    /\ height = s.height
    /\ contentRect = rect
    /\ glassSize = s.glassSize
    /\ contentMeasured = s.contentMeasured
    /\ initialTimeout = s.initialTimeout
    /\ resizeTimeoutRef = s.resizeTimeoutRef
    /\ observerPending = s.observerPending
    /\ measureQueue = s.measureQueue
    /\ canvasSize = s.canvasSize
    /\ sinceChange = debounceMs
    /\ burstChanges = 0
    /\ burstRasters = {}

\* A panel that is mounted and left alone.
IdleSize == SizeState(Mount(Undefined, Undefined), Size(0, 0))

\* A panel just mounted with any props around any content.
InitSize ==
    \E w \in WidthProps, h \in HeightProps, rect \in ContentRects :
        SizeState(Mount(w, h), rect)

\* The parent renders the panel with other width/height props.
SetProps(w, h) ==
    /\ <<w, h>> # <<width, height>>
    /\ LET s == Render([CurrentHook EXCEPT !.width = w, !.height = h],
                       Closure(CurrentHook), contentMeasured)
       IN  /\ Len(s.measureQueue) <= MaxMeasureQueue
           /\ SetHook(s)
           /\ SizeChange(s.rasters)
    /\ UNCHANGED <<contentRect, notSizeVars>>

\* The content changes size and the ResizeObserver notifies: its callback
\* clears the pending timeout and starts a new one.
ContentResize(rect) ==
    /\ rect # contentRect
    /\ contentRect' = rect
    /\ resizeTimeoutRef' = debounceMs
    /\ observerPending' = FALSE
    /\ SizeChange({})
    /\ UNCHANGED <<width, height, glassSize, contentMeasured, initialTimeout,
                   measureQueue, canvasSize, notSizeVars>>

\* The notification a ResizeObserver delivers after observe().
ObserverNotify ==
    /\ observerPending
    /\ observerPending' = FALSE
    /\ resizeTimeoutRef' = debounceMs
    /\ NoSizeChange({})
    /\ UNCHANGED <<width, height, contentRect, glassSize, contentMeasured,
                   initialTimeout, measureQueue, canvasSize, notSizeVars>>

\* The 0 ms timeout of the initial measurement calls updateGlassSize.
InitialTimeoutFires ==
    /\ initialTimeout
    /\ Len(measureQueue) < MaxMeasureQueue
    /\ SetHook(updateGlassSize([CurrentHook EXCEPT !.initialTimeout = FALSE]))
    /\ NoSizeChange({})
    /\ UNCHANGED <<contentRect, notSizeVars>>

\* The debounce timeout of the ResizeObserver callback calls updateGlassSize.
ResizeTimeoutFires ==
    /\ resizeTimeoutRef = 0
    /\ Len(measureQueue) < MaxMeasureQueue
    /\ SetHook(updateGlassSize([CurrentHook EXCEPT !.resizeTimeoutRef = NoTimeout]))
    /\ NoSizeChange({})
    /\ UNCHANGED <<contentRect, notSizeVars>>

\* TickMs pass; a timeout that is due fires before more time passes.
Tick ==
    /\ ~initialTimeout
    /\ resizeTimeoutRef # 0
    /\ resizeTimeoutRef > 0 \/ sinceChange < debounceMs
    /\ resizeTimeoutRef' = IF resizeTimeoutRef = NoTimeout THEN NoTimeout
                           ELSE Max(0, resizeTimeoutRef - TickMs)
    /\ sinceChange' = Min(debounceMs, sinceChange + TickMs)
    /\ burstChanges' = IF sinceChange + TickMs >= debounceMs THEN 0 ELSE burstChanges
    /\ burstRasters' = IF sinceChange + TickMs >= debounceMs THEN {} ELSE burstRasters
    /\ UNCHANGED <<width, height, contentRect, glassSize, contentMeasured,
                   initialTimeout, observerPending, measureQueue, canvasSize,
                   notSizeVars>>

\* An animation frame runs the measuring callbacks that are pending.
MeasureFrame ==
    /\ measureQueue # << >>
    /\ LET s == RunMeasures([CurrentHook EXCEPT !.measureQueue = << >>],
                            measureQueue, contentRect)
       IN  /\ SetHook(s)
           /\ NoSizeChange(s.rasters)
    /\ UNCHANGED <<contentRect, notSizeVars>>

NextSize ==
    \/ \E w \in WidthProps, h \in HeightProps : SetProps(w, h)
    \/ \E rect \in ContentRects : ContentResize(rect)
    \/ ObserverNotify
    \/ InitialTimeoutFires
    \/ ResizeTimeoutFires
    \/ Tick
    \/ MeasureFrame

\* A panel just mounted with any props around any content, near-minimum
\* content included.
InitAutoSize ==
    \E w \in WidthProps, h \in HeightProps, rect \in AutoSizeRects :
        SizeState(Mount(w, h), rect)

\* The auto-sizing of a panel whose props stay as they were at mount.
NextAutoSize ==
    \/ \E rect \in AutoSizeRects : ContentResize(rect)
    \/ ObserverNotify
    \/ InitialTimeoutFires
    \/ ResizeTimeoutFires
    \/ Tick
    \/ MeasureFrame

(***************************************************************************)
(* Claims about the panel size                                             *)
(***************************************************************************)
\* The size the panel has to end at for the props and the content as they are.
FinalSize ==
    IF IsSet(width) /\ IsSet(height) THEN Size(width, height)
    ELSE Size(OrElse(width, Max(contentRect.width + paddingValues.left + paddingValues.right, minWidth)),
              OrElse(height, Max(contentRect.height + paddingValues.top + paddingValues.bottom, minHeight)))

\* C5: in a burst of size changes (ResizeObserver notifications, width/height
\* prop changes) each less than 16 ms after the previous one, the field is
\* rasterized for the final size only, never for an intermediate size.
C5_BurstRasterizedForFinalSize ==
    burstChanges >= 2 => burstRasters \subseteq {FinalSize}

\* Nothing is pending: no timer, no ResizeObserver notification and no
\* animation-frame callback.
Quiescent ==
    /\ ~initialTimeout
    /\ resizeTimeoutRef = NoTimeout
    /\ ~observerPending
    /\ measureQueue = << >>

\* C27: for content whose measured size does not change, once the timers,
\* the ResizeObserver notifications and the animation-frame callbacks have
\* run, glassSize equals max(content size + padding, minimum size) on each
\* axis.
C27_AutoSizeConverges ==
    (Quiescent /\ width = Undefined /\ height = Undefined) => glassSize = FinalSize

\* C28: for a panel with no explicit width (height) prop, glassSize.width >=
\* minWidth (glassSize.height >= minHeight) in every reachable state.
C28_AtLeastMinimumSize ==
    /\ width = Undefined => glassSize.width >= minWidth
    /\ height = Undefined => glassSize.height >= minHeight

\* C28 witness: a panel without width and height props was measured around
\* content smaller than the minimum and around content larger than it.
C28_Witness ==
    /\ width = Undefined
    /\ height = Undefined
    /\ contentMeasured
    /\ Quiescent
    /\ contentRect = Size(0, 0)
    /\ glassSize = Size(minWidth, minHeight)

(***************************************************************************)
(* The field rasterizer: generateDisplacementMapData of                    *)
(* displacement-maps.ts, in fixed-point arithmetic                         *)
(***************************************************************************)
MaxRasterIdx == 2

\* A real number v is held as the integer nearest to v * Scale.
Scale == 10000

\* a / b to the nearest integer, b > 0.
RoundDiv(a, b) == (2 * a + b) \div (2 * b)

\* The number n / d.
Fx(n, d) == RoundDiv(n * Scale, d)

Mul(a, b) == RoundDiv(a * b, Scale)

Div(a, b) == IF b > 0 THEN RoundDiv(a * Scale, b) ELSE -RoundDiv(a * Scale, -b)

Pi == (31416 * Scale) \div 10000

RECURSIVE SqrtSearch(_, _, _)
SqrtSearch(n, lo, hi) ==
    IF lo >= hi THEN lo
    ELSE LET mid == (lo + hi + 1) \div 2
         IN  IF mid * mid <= n THEN SqrtSearch(n, mid, hi) ELSE SqrtSearch(n, lo, mid - 1)

\* Math.sqrt of a number in [0, 1].
Sqrt(v) == SqrtSearch(v * Scale, 0, Scale)

\* The series of e^t after the term `term` of index k, t >= 0.
RECURSIVE ExpSeries(_, _, _)
ExpSeries(t, term, k) ==
    IF term = 0 THEN 0
    ELSE term + ExpSeries(t, RoundDiv(Mul(term, t), k + 1), k + 1)

\* Math.exp(-t) for t >= 0.
ExpNeg(t) == RoundDiv(Scale * Scale, ExpSeries(t, Scale, 0))

\* The series of sin for an angle in [-Pi/2, Pi/2].
SinSeries(a) ==
    LET a2 == Mul(a, a)
        t3 == RoundDiv(Mul(a, a2), 6)
        t5 == RoundDiv(Mul(t3, a2), 20)
        t7 == RoundDiv(Mul(t5, a2), 42)
        t9 == RoundDiv(Mul(t7, a2), 72)
    IN  a - t3 + t5 - t7 + t9

\* Math.sin: the angle is reduced to [-Pi, Pi] and folded into [-Pi/2, Pi/2].
Sin(a) ==
    LET m == a % (2 * Pi)
        b == IF m > Pi THEN m - 2 * Pi ELSE m
        c == IF 2 * b > Pi THEN Pi - b ELSE IF 2 * b < -Pi THEN -Pi - b ELSE b
    IN  SinSeries(c)

\* Math.cos
Cos(a) == Sin(a + Pi \div 2)

\* Math.sin(u * Math.PI) and Math.cos(u * Math.PI), the period 2 of u taken
\* off before the multiplication.
SinPi(u) == Sin(Mul(u % (2 * Scale), Pi))

CosPi(u) == SinPi(u + Scale \div 2)

Vec2(x, y) == [x |-> x, y |-> y]

\* fragmentShaders.standard
standard(uv) ==
    LET centerX == uv.x - Scale \div 2
        centerY == uv.y - Scale \div 2
        r2 == Mul(centerX, centerX) + Mul(centerY, centerY)
        distFromCenter == Sqrt(r2)
        lensStrength == Mul(ExpNeg(RoundDiv(distFromCenter * 25, 10)), Fx(15, 100))
        distortion == Scale + Mul(r2, lensStrength)
    IN  Vec2(Mul(centerX, distortion) + Scale \div 2,
             Mul(centerY, distortion) + Scale \div 2)

\* fragmentShaders.polar.  With angle = atan2(centerY, centerX), cos(angle) is
\* centerX / radius and sin(angle) is centerY / radius (1 and 0 at the
\* centre, where atan2 is 0); sin(angle * 3) and the cosine and sine of
\* angle + angularOffset follow from the angle-sum formulas.
polar(uv) ==
    LET centerX == uv.x - Scale \div 2
        centerY == uv.y - Scale \div 2
        radius == Sqrt(Mul(centerX, centerX) + Mul(centerY, centerY))
        cosAngle == IF radius = 0 THEN Scale ELSE Div(centerX, radius)
        sinAngle == IF radius = 0 THEN 0 ELSE Div(centerY, radius)
        sin3 == 3 * sinAngle - 4 * Mul(sinAngle, Mul(sinAngle, sinAngle))
        radialEffect == Mul(ExpNeg(radius * 3), Fx(2, 10))
        angularOffset == Mul(Mul(sin3, radialEffect), Fx(3, 10))
        newRadius == Mul(radius, Scale + radialEffect)
        cosNew == Mul(cosAngle, Cos(angularOffset)) - Mul(sinAngle, Sin(angularOffset))
        sinNew == Mul(sinAngle, Cos(angularOffset)) + Mul(cosAngle, Sin(angularOffset))
    IN  Vec2(Mul(cosNew, newRadius) + Scale \div 2,
             Mul(sinNew, newRadius) + Scale \div 2)

\* fragmentShaders.prominent
prominent(uv) ==
    LET centerX == uv.x - Scale \div 2
        centerY == uv.y - Scale \div 2
        wave1 == Mul(SinPi(uv.x * 4), SinPi(uv.y * 4))
        wave2 == Mul(CosPi(uv.x * 6), CosPi(uv.y * 6))
        wave3 == SinPi((uv.x + uv.y) * 8)
        distFromCenter == Sqrt(Mul(centerX, centerX) + Mul(centerY, centerY))
        falloff == ExpNeg(distFromCenter * 2)
        displacement ==
            Mul(Mul(RoundDiv(wave1 * 4 + wave2 * 3 + wave3 * 3, 10), falloff), Fx(25, 100))
    IN  Vec2(centerX + Mul(displacement, centerX) + Scale \div 2,
             centerY + Mul(displacement, centerY) + Scale \div 2)

\* fragmentShaders[type]
fragment(type, uv) ==
    CASE type = "standard" -> standard(uv)
      [] type = "polar" -> polar(uv)
      [] type = "prominent" -> prominent(uv)

RasterSizes == {4 * i : i \in 1 .. MaxRasterIdx}

\* dx and dy of the first loop for the pixel (x, y).
RawValues(type, w, h, x, y) ==
    LET uv == Vec2(Fx(x, w), Fx(y, h))
        pos == fragment(type, uv)
    IN  [dx |-> pos.x * w - x * Scale, dy |-> pos.y * h - y * Scale]

\* What the first loop feeds to Math.max: the initial maxScale 0 and the
\* magnitudes of dx and dy of every pixel.
RawMagnitudes(type, w, h) ==
    {0} \cup UNION {{Abs(RawValues(type, w, h, x, y).dx), Abs(RawValues(type, w, h, x, y).dy)} :
                       x \in 0 .. w - 1, y \in 0 .. h - 1}

MaxOf(values) == CHOOSE m \in values : \A n \in values : m >= n

\* maxScale after line 75.
MaxScaleOf(type, w, h) ==
    LET m == MaxOf(RawMagnitudes(type, w, h))
    IN  IF m > 0 THEN Max(m, Scale) ELSE Scale

\* smoothStep of utils.ts
smoothStep(a, b, v) ==
    LET clamped == Max(0, Min(Scale, Div(v - a, b - a)))
    IN  Mul(Mul(clamped, clamped), 3 * Scale - 2 * clamped)

\* length of utils.ts, for a vector no longer than 2
length(x, y) == SqrtSearch((Mul(x, x) + Mul(y, y)) * Scale, 0, 2 * Scale)

\* roundedRectSDF of utils.ts
roundedRectSDF(x, y, w, h, radius) ==
    LET qx == Abs(x) - w + radius
        qy == Abs(y) - h + radius
    IN  Min(Max(qx, qy), 0) + length(Max(qx, 0), Max(qy, 0)) - radius

\* fragmentShaders.liquidGlass, which is also the fragmentShader of
\* LiquidGlass (liquid-glass.tsx)
liquidGlass(uv) ==
    LET ix == uv.x - Scale \div 2
        iy == uv.y - Scale \div 2
        distanceToEdge == roundedRectSDF(ix, iy, Fx(3, 10), Fx(2, 10), Fx(6, 10))
        displacement == smoothStep(Fx(8, 10), 0, distanceToEdge - Fx(15, 100))
        scaled == smoothStep(0, Scale, displacement)
    IN  Vec2(Mul(ix, scaled) + Scale \div 2, Mul(iy, scaled) + Scale \div 2)

\* What the first loop of the two updateShader functions feeds to Math.max.
ShaderMagnitudes(w, h) ==
    {0} \cup UNION {{Abs(liquidGlass(Vec2(Fx(x, w), Fx(y, h))).x * w - x * Scale),
                      Abs(liquidGlass(Vec2(Fx(x, w), Fx(y, h))).y * h - y * Scale)} :
                       x \in 0 .. w - 1, y \in 0 .. h - 1}

\* maxScale of ShaderDisplacementGenerator.updateShader after line 308.
GeneratorMaxScale(w, h) ==
    LET m == MaxOf(ShaderMagnitudes(w, h))
    IN  IF m > 0 THEN Max(m, Scale) ELSE Scale

\* maxScale of LiquidGlass.updateShader after `maxScale *= 0.5`.
PanelMaxScale(w, h) == MaxOf(ShaderMagnitudes(w, h)) \div 2

Rasterizers ==
    {"generateDisplacementMapData", "ShaderDisplacementGenerator.updateShader",
     "LiquidGlass.updateShader"}

\* The divisor a rasterizer encodes a field of the given type and size with.
DivisorOf(fn, type, w, h) ==
    CASE fn = "generateDisplacementMapData" -> MaxScaleOf(type, w, h)
      [] fn = "ShaderDisplacementGenerator.updateShader" -> GeneratorMaxScale(w, h)
      [] fn = "LiquidGlass.updateShader" -> PanelMaxScale(w, h)

NoDivisor == [fn |-> "none", maxScale |-> Scale]

\* A store into a Uint8ClampedArray: clamped to [0, 255] and rounded to the
\* nearest integer, a tie to the even one.
ToUint8Clamped(v) ==
    LET c == Max(0, Min(255 * Scale, v))
        q == c \div Scale
        rem == c % Scale
    IN  IF 2 * rem > Scale THEN q + 1
        ELSE IF 2 * rem = Scale THEN q + (q % 2)
        ELSE q

\* The body of the second loop for the pixel (x, y).
EncodePixel(type, w, h, scale, x, y) ==
    LET raw == RawValues(type, w, h, x, y)
        edgeDistance == Min(Min(x, y), Min(w - x - 1, h - y - 1))
        edgeFactor == Min(Scale, Fx(edgeDistance, 2))
        smoothedDx == Mul(raw.dx, edgeFactor)
        smoothedDy == Mul(raw.dy, edgeFactor)
        r == Div(smoothedDx, scale) + Scale \div 2
        g == Div(smoothedDy, scale) + Scale \div 2
    IN  [x |-> x, y |-> y, smoothedDx |-> smoothedDx, smoothedDy |-> smoothedDy,
         r255 |-> r * 255, g255 |-> g * 255,
         data |-> <<ToUint8Clamped(Max(0, Min(255 * Scale, r * 255))),
                    ToUint8Clamped(Max(0, Min(255 * Scale, g * 255))),
                    ToUint8Clamped(Max(0, Min(255 * Scale, g * 255))),
                    255>>]

NoPixel ==
    [x |-> -1, y |-> -1, smoothedDx |-> 0, smoothedDy |-> 0,
     r255 |-> 0, g255 |-> 0, data |-> <<0, 0, 0, 0>>]

\* Math.floor(Math.max(0, Math.min(1, v)) * 255)
FloorChannel(v) == (Max(0, Min(Scale, v)) * 255) \div Scale

\* The body of the loop of createModeSpecificMap for the pixel (x, y).  In
\* the polar case cos(angle) and sin(angle) are center.x / dist and
\* center.y / dist (1 and 0 at the centre, where atan2 is 0).
ModeSpecificPixel(mode, w, h, x, y) ==
    LET uv == Vec2(Fx(x, w), Fx(y, h))
        center == Vec2(uv.x - Scale \div 2, uv.y - Scale \div 2)
        distSq == Mul(center.x, center.x) + Mul(center.y, center.y)
        dist == Sqrt(distSq)
        distortion == Scale + Mul(distSq, Fx(3, 10))
        newRadius == Mul(dist, Fx(12, 10))
        cosAngle == IF dist = 0 THEN Scale ELSE Div(center.x, dist)
        sinAngle == IF dist = 0 THEN 0 ELSE Div(center.y, dist)
        wave == Mul(Mul(Sin(RoundDiv(x * ((12566 * Scale) \div 1000), w)),
                        Sin(RoundDiv(y * ((12566 * Scale) \div 1000), h))), Fx(1, 10))
        displacement ==
            CASE mode = "standard" -> Vec2(Mul(center.x, distortion), Mul(center.y, distortion))
              [] mode = "polar" -> Vec2(Mul(cosAngle, newRadius), Mul(sinAngle, newRadius))
              [] mode = "prominent" -> Vec2(Mul(center.x, Scale + wave), Mul(center.y, Scale + wave))
              [] OTHER -> Vec2(0, 0)
        edgeFactor == Scale - Max(0, Min(Scale, Div(dist - Fx(3, 10), Fx(2, 10))))
        normalizedX == Mul(displacement.x, edgeFactor) \div 2 + Scale \div 2
        normalizedY == Mul(displacement.y, edgeFactor) \div 2 + Scale \div 2
    IN  [x |-> x, y |-> y,
         data |-> <<FloorChannel(normalizedX), FloorChannel(normalizedY),
                    FloorChannel(normalizedY), 255>>]

NoModePixel == [x |-> -1, y |-> -1, data |-> <<0, 0, 0, 0>>]

\* The rasterizer after its first loop over a field of the given size.
RasterState(type, w, h) ==
    /\ fieldType = type
    /\ fieldWidth = w
    /\ fieldHeight = h
    /\ maxScale = MaxScaleOf(type, w, h)
    /\ pixelCount = 0
    /\ pixel = NoPixel
    /\ modeCount = 0
    /\ modePixel = NoModePixel
    /\ divisor = NoDivisor

IdleRaster == RasterState("standard", 4, 4)

InitRaster ==
    \E type \in ValidTypes, w \in RasterSizes, h \in RasterSizes : RasterState(type, w, h)

\* One iteration of the second loop.
EncodeNextPixel ==
    /\ pixelCount < fieldWidth * fieldHeight
    /\ pixel' = EncodePixel(fieldType, fieldWidth, fieldHeight, maxScale,
                            pixelCount % fieldWidth, pixelCount \div fieldWidth)
    /\ pixelCount' = pixelCount + 1
    /\ UNCHANGED <<fieldType, fieldWidth, fieldHeight, maxScale, modeCount, modePixel,
                   divisor, notRasterVars>>

\* One iteration of the loop of createModeSpecificMap.
StoreNextModePixel ==
    /\ modeCount < fieldWidth * fieldHeight
    /\ modePixel' = ModeSpecificPixel(fieldType, fieldWidth, fieldHeight,
                                      modeCount % fieldWidth, modeCount \div fieldWidth)
    /\ modeCount' = modeCount + 1
    /\ UNCHANGED <<fieldType, fieldWidth, fieldHeight, maxScale, pixelCount, pixel,
                   divisor, notRasterVars>>

\* A rasterizer runs its first loop over a field of this size and fixes the
\* maxScale it will divide by.
ComputeMaxScale(fn) ==
    /\ pixelCount = 0
    /\ modeCount = 0
    /\ divisor.fn # fn
    /\ divisor' = [fn |-> fn, maxScale |-> DivisorOf(fn, fieldType, fieldWidth, fieldHeight)]
    /\ UNCHANGED <<fieldType, fieldWidth, fieldHeight, maxScale, pixelCount, pixel,
                   modeCount, modePixel, notRasterVars>>

NextRaster ==
    \/ EncodeNextPixel
    \/ StoreNextModePixel
    \/ \E fn \in Rasterizers : ComputeMaxScale(fn)

(***************************************************************************)
(* Claims about the rasterizer                                             *)
(***************************************************************************)
\* The error, times 255, of decoding the channel value ch as
\* (ch / 255 * 2 - 1) * maxScale against the displacement d.
DecodeError255(ch, d) == Abs((2 * ch - 255) * maxScale - 255 * d)

\* C10: for every pixel, decoding the stored R and G channels as
\* (channel / 255 * 2 - 1) * maxScale gives back the edge-smoothed (dx, dy)
\* within 1/255 of the normalized range, and a displacement of magnitude at
\* most maxScale is not clipped by the clamp to [0, 255].
C10_EncodingRoundTrips ==
    pixel # NoPixel =>
        /\ DecodeError255(pixel.data[1], pixel.smoothedDx) <= maxScale
        /\ DecodeError255(pixel.data[2], pixel.smoothedDy) <= maxScale
        /\ Abs(pixel.smoothedDx) <= maxScale =>
               (0 <= pixel.r255 /\ pixel.r255 <= 255 * Scale)
        /\ Abs(pixel.smoothedDy) <= maxScale =>
               (0 <= pixel.g255 /\ pixel.g255 <= 255 * Scale)

\* The pixel (x, y) is on the outermost ring of the field.
OnRing(x, y) ==
    x = 0 \/ y = 0 \/ x = fieldWidth - 1 \/ y = fieldHeight - 1

\* The values a zero displacement is stored as: (0 / maxScale + 0.5) * 255
\* in a Uint8ClampedArray, and Math.floor(0.5 * 255).
NeutralChannel == ToUint8Clamped((Scale \div 2) * 255)

NeutralModeChannel == FloorChannel(Scale \div 2)

\* C11: every pixel on the outermost ring of a field encodes zero
\* displacement, the neutral channel value, in both displacement channels,
\* in generateDisplacementMapData and in createModeSpecificMap.
C11_RingEncodesZero ==
    /\ (pixel # NoPixel /\ OnRing(pixel.x, pixel.y))
           => (pixel.data[1] = NeutralChannel /\ pixel.data[2] = NeutralChannel)
    /\ (modePixel # NoModePixel /\ OnRing(modePixel.x, modePixel.y))
           => (modePixel.data[1] = NeutralModeChannel
               /\ modePixel.data[2] = NeutralModeChannel)

\* The part of C11 about generateDisplacementMapData alone.
C11_CpuRingEncodesZero ==
    (pixel # NoPixel /\ OnRing(pixel.x, pixel.y))
        => (pixel.smoothedDx = 0 /\ pixel.smoothedDy = 0
            /\ pixel.data[1] = NeutralChannel /\ pixel.data[2] = NeutralChannel)

\* C12: the maxScale a rasterizer divides by is floored at 1, in
\* generateDisplacementMapData, ShaderDisplacementGenerator.updateShader and
\* LiquidGlass.updateShader.
C12_DivisorAtLeastOne ==
    divisor.fn \in Rasterizers => divisor.maxScale >= Scale

(***************************************************************************)
(* Calls of the displacement-map generators                                *)
(***************************************************************************)
\* The history of first results, after a request of key by fn.
Remember(fn, key, url) ==
    IF <<fn, key>> \in DOMAIN firstResult THEN firstResult
    ELSE CacheSet(firstResult, <<fn, key>>, url)

\* A caller invokes generateDisplacementMap(type, width, height).
CallGenerateDisplacementMap(type, w, h, env) ==
    LET fn == "generateDisplacementMap"
        eff == generateDisplacementMap(displacementCache, type, w, h, env)
    IN  /\ mapCalls < MaxCalls
        /\ mapCalls' = mapCalls + 1
        /\ displacementCache' = eff.cache
        /\ firstResult' = Remember(fn, CacheKey(type, w, h), eff.res.val)
        /\ lastCall' = CallRecord(fn, type, w, h, eff,
                                  <<fn, CacheKey(type, w, h)>> \in DOMAIN firstResult)
        /\ UNCHANGED <<legacyCache, extractedModeCache, notMapVars>>

\* A caller invokes the generateDisplacementMap of part_000.
CallGenerateDisplacementMapLegacy(type, w, h, env) ==
    LET fn == "generateDisplacementMapLegacy"
        eff == generateDisplacementMapLegacy(legacyCache, type, w, h, env)
    IN  /\ mapCalls < MaxCalls
        /\ mapCalls' = mapCalls + 1
        /\ legacyCache' = eff.cache
        /\ firstResult' = Remember(fn, CacheKey(type, w, h), eff.res.val)
        /\ lastCall' = CallRecord(fn, type, w, h, eff,
                                  <<fn, CacheKey(type, w, h)>> \in DOMAIN firstResult)
        /\ UNCHANGED <<displacementCache, extractedModeCache, notMapVars>>

\* A caller invokes generateOptimizedDisplacementMap(type, width, height).
CallGenerateOptimizedDisplacementMap(type, w, h, env) ==
    LET fn == "generateOptimizedDisplacementMap"
        eff == generateOptimizedDisplacementMap(displacementCache, extractedModeCache,
                                                type, w, h, env)
    IN  /\ mapCalls < MaxCalls
        /\ mapCalls' = mapCalls + 1
        /\ displacementCache' = eff.cache
        /\ extractedModeCache' = eff.ext
        /\ firstResult' = Remember(fn, CacheKey(type, w, h), eff.res.val)
        /\ lastCall' = CallRecord(fn, type, w, h, eff,
                                  <<fn, CacheKey(type, w, h)>> \in DOMAIN firstResult)
        /\ UNCHANGED <<legacyCache, notMapVars>>

\* A caller invokes generateDisplacementMap(type), leaving width and height to
\* their defaults, as getDisplacementMap, getPolarDisplacementMap and
\* getProminentDisplacementMap do.
CallGetDisplacementMap(type, env) ==
    LET eff == generateDisplacementMap(displacementCache, type, DefaultSize, DefaultSize, env)
    IN  /\ displacementCache' = eff.cache
        /\ lastCall' = CallRecord("generateDisplacementMap", type, DefaultSize, DefaultSize,
                                  eff, FALSE)
        /\ UNCHANGED <<legacyCache, extractedModeCache, firstResult, mapCalls, notMapVars>>

\* A caller invokes getMap(mode).
CallGetMap(mode, env) ==
    LET eff == getMap(displacementCache, extractedModeCache, mode, env)
    IN  /\ displacementCache' = eff.cache
        /\ extractedModeCache' = eff.ext
        /\ lastCall' = CallRecord("getMap", mode, DefaultSize, DefaultSize, eff, FALSE)
        /\ UNCHANGED <<legacyCache, firstResult, mapCalls, notMapVars>>

\* The sized generators do not load the optimized module lazily.
SizedEnvs == {env \in Envs : env.optModule}

\* The sized generators, called with any type and size in any environment.
NextCache ==
    \/ \E t \in Types, w \in Dims, h \in Dims, env \in SizedEnvs :
           CallGenerateDisplacementMap(t, w, h, env)
    \/ \E t \in Types, w \in Dims, h \in Dims, env \in SizedEnvs :
           CallGenerateDisplacementMapLegacy(t, w, h, env)
    \/ \E t \in Types, w \in Dims, h \in Dims, env \in SizedEnvs :
           CallGenerateOptimizedDisplacementMap(t, w, h, env)


\* getMap and generateDisplacementMap at the default size, called with any
\* mode in any environment.
NextGetMap ==
    \/ \E mode \in Types, env \in Envs : CallGetMap(mode, env)
    \/ \E type \in Types, env \in Envs : CallGetDisplacementMap(type, env)


(***************************************************************************)
(* Claims about the displacement maps                                      *)
(***************************************************************************)
CpuGenerators == {"generateDisplacementMap", "generateDisplacementMapLegacy"}

RealMapFormats == {"png", "bmp", "png-mode"}

\* C1: a second or later generateDisplacementMap call with a key that was
\* already requested returns the URL the first request returned and does not
\* run generateDisplacementMapData again (stated for valid types and positive
\* sizes).
C1_AtMostOncePerKey ==
    (/\ lastCall.fn \in CpuGenerators
     /\ lastCall.type \in ValidTypes /\ lastCall.w > 0 /\ lastCall.h > 0
     /\ lastCall.requested)
    => /\ lastCall.runs = 0
       /\ lastCall.res.val
            = firstResult[<<lastCall.fn, CacheKey(lastCall.type, lastCall.w, lastCall.h)>>]

\* C2: a map that generateDisplacementMap or generateOptimizedDisplacementMap
\* returns is the map of the requested (variant, width, height), never the
\* cached map of a request that differed in width or height.
C2_CacheKeyedBySize ==
    (/\ lastCall.fn \in CpuGenerators \cup {"generateOptimizedDisplacementMap"}
     /\ lastCall.type \in ValidTypes /\ lastCall.w > 0 /\ lastCall.h > 0
     /\ lastCall.res.kind = "return"
     /\ lastCall.res.val.fmt \in RealMapFormats
     /\ lastCall.res.val.w > 0 /\ lastCall.res.val.h > 0)
    => /\ lastCall.res.val.type = lastCall.type
       /\ lastCall.res.val.w = lastCall.w
       /\ lastCall.res.val.h = lastCall.h

\* C6: whenever generating the field failed, generateDisplacementMap and
\* getMap return the 1x1 placeholder, never the empty string.
C6_FailureYieldsPlaceholder ==
    (/\ lastCall.fn \in {"generateDisplacementMap", "getMap"}
     /\ lastCall.type \in ValidTypes
     /\ lastCall.failed)
    => lastCall.res = Return(Placeholder)

\* C7: for every valid mode and every environment getMap returns a string and
\* does not throw.
C7_GetMapNeverThrows ==
    (lastCall.fn = "getMap" /\ lastCall.type \in ValidTypes)
    => /\ lastCall.res.kind = "return"
       /\ lastCall.res.val.fmt \in RealMapFormats \cup {"empty", "gif"}

\* C7 witness: getMap was called with a valid mode, generating the field
\* failed, and getMap returned.
C7_Witness ==
    /\ lastCall.fn = "getMap"
    /\ lastCall.type \in ValidTypes
    /\ lastCall.failed
    /\ lastCall.res.kind = "return"

\* C8: for a mode outside the recognized set getMap and
\* generateDisplacementMap raise an error and return no map or placeholder.
C8_UnknownVariantFailsFast ==
    (/\ lastCall.fn \in {"generateDisplacementMap", "getMap"}
     /\ lastCall.type \notin ValidTypes)
    => lastCall.res.kind = "throw"

\* C9: generateDisplacementMap never returns, as a successful result, the
\* raster of a width or height that is zero or negative.
C9_DegenerateSizeRejected ==
    (/\ lastCall.fn \in CpuGenerators
     /\ lastCall.type \in ValidTypes
     /\ lastCall.res.kind = "return"
     /\ lastCall.res.val.fmt \in RealMapFormats)
    => (lastCall.res.val.w > 0 /\ lastCall.res.val.h > 0)

(***************************************************************************)
(* The elastic estimator: calculateFadeInFactor, calculateElasticTranslation*)
(* and calculateDirectionalScale of useElasticEffects (part_003), which    *)
(* part_007 and index.tsx repeat.  Each render reads the bounding box the  *)
(* render before it left in the document.                                  *)
(***************************************************************************)
MaxRenders == 3

\* Lengths are held in hundredths of a pixel.
PxUnit == 100

Px(n) == n * PxUnit

\* The elasticity prop: not passed, 0, 1 and 8.
Elasticities == {Undefined, 0, Scale, 8 * Scale}

\* elasticity = 0.15 of the props
DefaultElasticity == Fx(15, 100)

\* The glassSize state the estimator is given; containerStyle gives the panel's
\* element this width and height.
ElasticGlassSize == [width |-> Px(120), height |-> Px(60)]

\* The centre of the panel's layout box, where the panel sits untransformed.
LayoutCentre == Vec2(Px(200), Px(150))

\* clientX and clientY of the mousemove events.
PointerPositions ==
    {Vec2(Px(p[1]), Px(p[2])) :
        p \in {<<0, 150>>, <<200, 150>>, <<200, 50>>, <<230, 160>>, <<280, 150>>,
               <<360, 150>>, <<459, 150>>, <<200, 381>>, <<500, 400>>}}

\* glassRef.current is null.
NullRef == [left |-> 0, top |-> 0, width |-> -1, height |-> -1]

Identity == [translate |-> Vec2(0, 0), scale |-> Vec2(Scale, Scale)]

\* glassRef.current.getBoundingClientRect() of the panel's element, whose
\* style carries the translate and the scale of the last render.
getBoundingClientRect(translate, scale) ==
    LET w == Mul(ElasticGlassSize.width, scale.x)
        h == Mul(ElasticGlassSize.height, scale.y)
    IN  [left |-> LayoutCentre.x + translate.x - w \div 2,
         top |-> LayoutCentre.y + translate.y - h \div 2,
         width |-> w,
         height |-> h]

pillCenterX(rect) == rect.left + rect.width \div 2

pillCenterY(rect) == rect.top + rect.height \div 2

\* !globalMousePos.x || !globalMousePos.y || !glassRef.current
NoPointerOrPanel(mouse, rect) == mouse.x = 0 \/ mouse.y = 0 \/ rect = NullRef

\* Math.sqrt(a * a + b * b) for a, b >= 0.  A leg of more than 300 px, whose
\* square the integers of the model cannot hold, stands for the root: the
\* estimator only compares such a root with activationZone.
SqrtOfSquares(a, b) ==
    IF a > Px(300) \/ b > Px(300) THEN Max(a, b)
    ELSE SqrtSearch(a * a + b * b, 0, a + b)

\* edgeDistance of the three functions: the half sizes are those of glassSize.
edgeDistance(mouse, rect) ==
    LET edgeDistanceX == Max(0, Abs(mouse.x - pillCenterX(rect)) - ElasticGlassSize.width \div 2)
        edgeDistanceY == Max(0, Abs(mouse.y - pillCenterY(rect)) - ElasticGlassSize.height \div 2)
    IN  SqrtOfSquares(edgeDistanceX, edgeDistanceY)

\* 1 - edgeDistance / activationZone
FadeAt(distance) == Scale - RoundDiv(distance * Scale, Px(activationZone))

calculateFadeInFactor(mouse, rect) ==
    IF NoPointerOrPanel(mouse, rect) THEN 0
    ELSE LET d == edgeDistance(mouse, rect)
         IN  IF d > Px(activationZone) THEN 0 ELSE FadeAt(d)

\* The scale as computed, without Math.max(0.8, scale).
Unclamped(scale) == scale

\* Math.max(0.8, scale)
ClampScale(scale) == Max((8 * Scale) \div 10, scale)

calculateDirectionalScale(mouse, rect, e) ==
    IF NoPointerOrPanel(mouse, rect) THEN Identity.scale
    ELSE
    LET deltaX == mouse.x - pillCenterX(rect)
        deltaY == mouse.y - pillCenterY(rect)
        d == edgeDistance(mouse, rect)
    IN  IF d > Px(activationZone) THEN Identity.scale
        ELSE
        LET fadeInFactor == FadeAt(d)
            centerDistance == SqrtOfSquares(Abs(deltaX), Abs(deltaY))
        IN  IF centerDistance = 0 THEN Identity.scale
            ELSE
            LET normalizedX == Div(deltaX, centerDistance)
                normalizedY == Div(deltaY, centerDistance)
                stretchIntensity ==
                    Mul(Mul(Min(RoundDiv(centerDistance * Scale, Px(300)), Scale), e),
                        fadeInFactor)
                scaleX == Scale + Mul(Mul(Abs(normalizedX), stretchIntensity), (3 * Scale) \div 10)
                                - Mul(Mul(Abs(normalizedY), stretchIntensity), (15 * Scale) \div 100)
                scaleY == Scale + Mul(Mul(Abs(normalizedY), stretchIntensity), (3 * Scale) \div 10)
                                - Mul(Mul(Abs(normalizedX), stretchIntensity), (15 * Scale) \div 100)
            IN  Vec2(ClampScale(scaleX), ClampScale(scaleY))

\* delta * elasticity * 0.1 * fadeInFactor; a zero factor gives 0 without the
\* product, which the integers of the model cannot hold for a far pointer.
ElasticOffset(delta, e, fadeInFactor) ==
    LET factor == Mul(Mul(e, Scale \div 10), fadeInFactor)
    IN  IF factor = 0 THEN 0
        ELSE IF delta >= 0 THEN Mul(delta, factor) ELSE -Mul(-delta, factor)

\* calculateElasticTranslation with the pointer's position in place of its
\* offset from the panel's centre.
calculateElasticTranslationOfPosition(mouse, rect, e) ==
    IF rect = NullRef THEN Identity.translate
    ELSE LET fadeInFactor == calculateFadeInFactor(mouse, rect)
         IN  Vec2(ElasticOffset(mouse.x, e, fadeInFactor),
                  ElasticOffset(mouse.y, e, fadeInFactor))

calculateElasticTranslation(mouse, rect, e) ==
    IF rect = NullRef THEN Identity.translate
    ELSE LET fadeInFactor == calculateFadeInFactor(mouse, rect)
         IN  Vec2(ElasticOffset(mouse.x - pillCenterX(rect), e, fadeInFactor),
                  ElasticOffset(mouse.y - pillCenterY(rect), e, fadeInFactor))

\* One render whose transformStyle takes the estimator's results while
\* isDragging too.
EstimateWhileDragging(mouse, dragging, rect, e) ==
    [mouse |-> mouse,
     isDragging |-> dragging,
     rect |-> rect,
     fadeInFactor |-> calculateFadeInFactor(mouse, rect),
     translate |-> calculateElasticTranslation(mouse, rect, OrElse(e, DefaultElasticity)),
     scale |-> calculateDirectionalScale(mouse, rect, OrElse(e, DefaultElasticity))]

\* One render: what it read, and elasticTranslation and directionalScale of
\* its transformStyle (the identity while isDragging).
Estimate(mouse, dragging, rect, e) ==
    [mouse |-> mouse,
     isDragging |-> dragging,
     rect |-> rect,
     fadeInFactor |-> calculateFadeInFactor(mouse, rect),
     translate |-> IF dragging THEN Identity.translate
                   ELSE calculateElasticTranslation(mouse, rect, OrElse(e, DefaultElasticity)),
     scale |-> IF dragging THEN Identity.scale
               ELSE calculateDirectionalScale(mouse, rect, OrElse(e, DefaultElasticity))]

\* The components whose frame callback stores the pointer for the estimator:
\* useMouseTracking (part_009) stores it inside the activation zone only,
\* EnhancedLiquidGlass (part_007) always.
Trackers == {"useMouseTracking", "EnhancedLiquidGlass"}

\* edgeDistance of the frame callback of useMouseTracking: the distance of the
\* event to glassRef.current.getBoundingClientRect().
glassEdgeDistance(mouse, glassRect) ==
    SqrtOfSquares(Max(0, Abs(mouse.x - pillCenterX(glassRect)) - glassRect.width \div 2),
                  Max(0, Abs(mouse.y - pillCenterY(glassRect)) - glassRect.height \div 2))

\* The frame callback of the tracker calls setInternalGlobalMousePos.
StoresPointer(t, mouse, glassRect) ==
    t = "EnhancedLiquidGlass" \/ glassEdgeDistance(mouse, glassRect) <= Px(activationZone)

\* The first render: the pointer state is { x: 0, y: 0 } and the ref is null.
ElasticState(e, t) ==
    /\ tracker = t
    /\ pointer = Vec2(0, 0)
    /\ elasticity = e
    /\ estimate = Estimate(Vec2(0, 0), FALSE, NullRef, e)
    /\ previousEstimate = Estimate(Vec2(0, 0), FALSE, NullRef, e)
    /\ renderCount = 0

IdleElastic == ElasticState(Undefined, "EnhancedLiquidGlass")

InitElastic == \E e \in Elasticities, t \in Trackers : ElasticState(e, t)

\* A mousemove whose frame callback stores the pointer: the component renders
\* again.
RenderAfterMove(mouse, dragging) ==
    LET rect == getBoundingClientRect(estimate.translate, estimate.scale)
    IN  /\ renderCount < MaxRenders
        /\ StoresPointer(tracker, mouse, rect)
        /\ pointer' = mouse
        /\ estimate' = Estimate(mouse, dragging, rect, elasticity)
        /\ previousEstimate' = estimate
        /\ renderCount' = renderCount + 1
        /\ UNCHANGED <<elasticity, tracker, notElasticVars>>

\* A mousemove whose frame callback stores nothing: no state changes and the
\* panel keeps the transform of its last render.
MoveOutsideZone(mouse) ==
    /\ renderCount < MaxRenders
    /\ ~StoresPointer(tracker, mouse, getBoundingClientRect(estimate.translate, estimate.scale))
    /\ pointer' = mouse
    /\ renderCount' = renderCount + 1
    /\ UNCHANGED <<elasticity, tracker, estimate, previousEstimate, notElasticVars>>

NextElastic ==
    \/ \E mouse \in PointerPositions, dragging \in BOOLEAN : RenderAfterMove(mouse, dragging)
    \/ \E mouse \in PointerPositions : MoveOutsideZone(mouse)

\* ---- claims about the elastic estimator

\* The Euclidean distance of the pointer to the bounding box of the panel.
BoxDistance(mouse, rect) ==
    SqrtOfSquares(Max(0, Abs(mouse.x - pillCenterX(rect)) - rect.width \div 2),
                  Max(0, Abs(mouse.y - pillCenterY(rect)) - rect.height \div 2))

\* The estimator ran for a pointer event on the mounted panel.
Estimated(est) == est.rect # NullRef /\ ~est.isDragging

\* C13: for every pointer whose distance to the panel's bounding box exceeds
\* 200 and every elasticity, the estimator returns translate (0,0) and
\* scale (1,1).
C13_FarPointerYieldsIdentity ==
    (/\ Estimated(estimate)
     /\ BoxDistance(estimate.mouse, estimate.rect) > Px(activationZone))
    => (estimate.translate = Identity.translate /\ estimate.scale = Identity.scale)

\* The square of the magnitude of a translation.
Magnitude2(t) == t.x * t.x + t.y * t.y

InZone(est) ==
    /\ Estimated(est)
    /\ ~NoPointerOrPanel(est.mouse, est.rect)
    /\ edgeDistance(est.mouse, est.rect) <= Px(activationZone)

Nearer(a, b) == edgeDistance(a.mouse, a.rect) < edgeDistance(b.mouse, b.rect)

\* C14: for a fixed panel and a fixed elasticity, of two pointers inside the
\* activation zone the one nearer to the panel's edge gets the strictly
\* larger translation.
C14_NearerPointerMovesMore ==
    (/\ OrElse(elasticity, DefaultElasticity) > 0
     /\ InZone(estimate)
     /\ InZone(previousEstimate)
     /\ estimate.rect = previousEstimate.rect)
    => /\ Nearer(estimate, previousEstimate)
            => Magnitude2(estimate.translate) > Magnitude2(previousEstimate.translate)
       /\ Nearer(previousEstimate, estimate)
            => Magnitude2(previousEstimate.translate) > Magnitude2(estimate.translate)

\* C15: for every pointer position, those with a coordinate of 0 included,
\* calculateFadeInFactor returns 0 beyond 200 from the panel's bounding box
\* and 1 - edgeDistance/200 otherwise.
C15_FadeInOfDistance ==
    (renderCount > 0 /\ estimate.rect # NullRef)
    => estimate.fadeInFactor =
         (IF BoxDistance(estimate.mouse, estimate.rect) > Px(activationZone) THEN 0
          ELSE FadeAt(BoxDistance(estimate.mouse, estimate.rect)))

AtCentre(est) ==
    /\ est.rect # NullRef
    /\ est.mouse = Vec2(pillCenterX(est.rect), pillCenterY(est.rect))

\* C16: a pointer exactly at the panel's centre yields translate (0,0) and
\* scale (1,1) for every elasticity.
C16_CentreYieldsIdentity ==
    (renderCount > 0 /\ AtCentre(estimate))
    => (estimate.translate = Identity.translate /\ estimate.scale = Identity.scale)

\* C16 witness: the estimator ran, not dragging, with a positive elasticity
\* for a pointer at the centre of the panel.
C16_Witness ==
    /\ renderCount > 0
    /\ AtCentre(estimate)
    /\ ~estimate.isDragging
    /\ OrElse(elasticity, DefaultElasticity) > 0

\* C17: every scale the estimator returns has scaleX >= 0.8 and
\* scaleY >= 0.8.
C17_ScaleAtLeastFourFifths ==
    /\ estimate.scale.x >= (8 * Scale) \div 10
    /\ estimate.scale.y >= (8 * Scale) \div 10

\* C17 witness: the estimator returned a scale the clamp raised to 0.8.
C17_Witness ==
    /\ InZone(estimate)
    /\ estimate.scale.x = (8 * Scale) \div 10
    /\ estimate.scale.y > Scale

\* C21: after any sequence of pointer moves handled by useMouseTracking,
\* whenever the pointer is more than 200 from the panel's edge the transform
\* applied to the panel is the identity.
C21_NoEffectOutsideZone ==
    (/\ tracker = "useMouseTracking"
     /\ renderCount > 0
     /\ BoxDistance(pointer, getBoundingClientRect(estimate.translate, estimate.scale))
            > Px(activationZone))
    => (estimate.translate = Identity.translate /\ estimate.scale = Identity.scale)

\* C23: in every state where isDragging is true the elastic translation is
\* (0,0) and the directional scale is scale(1).
C23_NoElasticEffectWhileDragging ==
    estimate.isDragging
    => (estimate.translate = Identity.translate /\ estimate.scale = Identity.scale)

\* C23 witness: a render while dragging, with a positive elasticity and the
\* pointer inside the activation zone and off the panel's centre.
C23_Witness ==
    /\ estimate.isDragging
    /\ OrElse(elasticity, DefaultElasticity) > 0
    /\ ~NoPointerOrPanel(estimate.mouse, estimate.rect)
    /\ edgeDistance(estimate.mouse, estimate.rect) < Px(activationZone)
    /\ ~AtCentre(estimate)

(***************************************************************************)
(* The SVG filters: the filter primitives each filter component renders,   *)
(* as a function of its props.                                             *)
(***************************************************************************)
\* The two GlassFilter components of displacement-maps.ts, the GlassFilter of
\* part_007 and the AdvancedGlassFilter of index.tsx.
FilterComponents ==
    {"GlassFilter (conditional aberration)", "GlassFilter (masked aberration)",
     "GlassFilter", "AdvancedGlassFilter"}

\* The mode prop of a filter component.
FilterModes(c) ==
    IF c \in {"GlassFilter", "AdvancedGlassFilter"}
    THEN {"standard", "polar", "prominent", "shader"}
    ELSE {"standard", "polar", "prominent"}

\* Values of the displacementScale prop; 25 and 70 are defaults of the panels.
DisplacementScales == {0, 25, 70}

\* Values of the aberrationIntensity prop; 2 is the default of the panel.
AberrationIntensities == {0, 1, 2}

\* ---- the filter primitives; numbers are held as multiples of 1/Scale
feImage(result) == [element |-> "feImage", result |-> result]

\* A feColorMatrix with the matrix that keeps one channel ("R", "G" or "B")
\* and alpha, or the one that turns the map into its intensity.
feColorMatrix(in, keeps, result) ==
    [element |-> "feColorMatrix", in |-> in, keeps |-> keeps, result |-> result]

\* A feComponentTransfer with a feFuncA.
feComponentTransfer(in, type, tableValues, result) ==
    [element |-> "feComponentTransfer", in |-> in, type |-> type,
     tableValues |-> tableValues, result |-> result]

feOffset(in, dx, dy, result) ==
    [element |-> "feOffset", in |-> in, dx |-> dx, dy |-> dy, result |-> result]

feDisplacementMap(in, in2, scale, result) ==
    [element |-> "feDisplacementMap", in |-> in, in2 |-> in2, scale |-> scale,
     result |-> result]

feBlend(in, in2, mode, result) ==
    [element |-> "feBlend", in |-> in, in2 |-> in2, mode |-> mode, result |-> result]

feGaussianBlur(in, stdDeviation, result) ==
    [element |-> "feGaussianBlur", in |-> in, stdDeviation |-> stdDeviation,
     result |-> result]

feComposite(in, in2, operator, result) ==
    [element |-> "feComposite", in |-> in, in2 |-> in2, operator |-> operator,
     result |-> result]

\* The result of the last primitive, which has no result attribute.
FilterOutput == "(output)"

\* GlassFilter of displacement-maps.ts, lines 351-421
GlassFilterConditional(ds, ai) ==
    <<feImage("DISPLACEMENT_MAP"),
      feDisplacementMap("SourceGraphic", "DISPLACEMENT_MAP", ds * (-Scale), "DISPLACED")>>
    \o (IF ai > 0
        THEN <<feOffset("DISPLACED", ai * Fx(4, 10), ai * Fx(2, 10), "RED_SHIFT"),
               feColorMatrix("RED_SHIFT", "R", "RED_ONLY"),
               feOffset("DISPLACED", -ai * Fx(4, 10), -ai * Fx(2, 10), "BLUE_SHIFT"),
               feColorMatrix("BLUE_SHIFT", "B", "BLUE_ONLY"),
               feColorMatrix("DISPLACED", "G", "GREEN_ONLY"),
               feComposite("RED_ONLY", "GREEN_ONLY", "arithmetic", "RG_ADD"),
               feComposite("RG_ADD", "BLUE_ONLY", "arithmetic", FilterOutput)>>
        ELSE <<feOffset("DISPLACED", 0, 0, FilterOutput)>>)

\* The edge mask and the clean centre the masked filters begin with.
EdgeMaskStages(ai) ==
    <<feImage("DISPLACEMENT_MAP"),
      feColorMatrix("DISPLACEMENT_MAP", "intensity", "EDGE_INTENSITY"),
      feComponentTransfer("EDGE_INTENSITY", "discrete", <<0, ai * Fx(5, 100), Scale>>,
                          "EDGE_MASK"),
      feOffset("SourceGraphic", 0, 0, "CENTER_ORIGINAL")>>

\* The recombination, blur and masking the masked filters end with.
CombineStages(ai) ==
    <<feBlend("GREEN_CHANNEL", "BLUE_CHANNEL", "screen", "GB_COMBINED"),
      feBlend("RED_CHANNEL", "GB_COMBINED", "screen", "RGB_COMBINED"),
      feGaussianBlur("RGB_COMBINED", Max(Fx(1, 10), Fx(5, 10) - ai * Fx(1, 10)),
                     "ABERRATED_BLURRED"),
      feComposite("ABERRATED_BLURRED", "EDGE_MASK", "in", "EDGE_ABERRATION"),
      feComponentTransfer("EDGE_MASK", "table", <<Scale, 0>>, "INVERTED_MASK"),
      feComposite("CENTER_ORIGINAL", "INVERTED_MASK", "in", "CENTER_CLEAN"),
      feComposite("EDGE_ABERRATION", "CENTER_CLEAN", "over", FilterOutput)>>

\* GlassFilter of displacement-maps.ts, lines 426-497
GlassFilterMasked(ds, ai) ==
    EdgeMaskStages(ai)
    \o <<feDisplacementMap("SourceGraphic", "DISPLACEMENT_MAP",
                           ds * (-Scale - ai * Fx(5, 100)), "BASE_DISPLACED"),
         feOffset("BASE_DISPLACED", ai * Fx(5, 10), ai * Fx(2, 10), "RED_OFFSET"),
         feColorMatrix("RED_OFFSET", "R", "RED_CHANNEL"),
         feOffset("BASE_DISPLACED", 0, 0, "GREEN_OFFSET"),
         feColorMatrix("GREEN_OFFSET", "G", "GREEN_CHANNEL"),
         feOffset("BASE_DISPLACED", -ai * Fx(5, 10), -ai * Fx(2, 10), "BLUE_OFFSET"),
         feColorMatrix("BLUE_OFFSET", "B", "BLUE_CHANNEL")>>
    \o CombineStages(ai)

\* mode === "shader" ? 1 : -1
ModeSign(mode) == IF mode = "shader" THEN Scale ELSE -Scale

\* AdvancedGlassFilter of index.tsx
AdvancedGlassFilter(ds, ai, mode) ==
    EdgeMaskStages(ai)
    \o <<feDisplacementMap("SourceGraphic", "DISPLACEMENT_MAP", ds * ModeSign(mode),
                           "RED_DISPLACED"),
         feColorMatrix("RED_DISPLACED", "R", "RED_CHANNEL"),
         feDisplacementMap("SourceGraphic", "DISPLACEMENT_MAP",
                           ds * (ModeSign(mode) - ai * Fx(5, 100)), "GREEN_DISPLACED"),
         feColorMatrix("GREEN_DISPLACED", "G", "GREEN_CHANNEL"),
         feDisplacementMap("SourceGraphic", "DISPLACEMENT_MAP",
                           ds * (ModeSign(mode) - ai * Fx(1, 10)), "BLUE_DISPLACED"),
         feColorMatrix("BLUE_DISPLACED", "B", "BLUE_CHANNEL")>>
    \o CombineStages(ai)

\* GlassFilter of part_007, which renders the primitives of AdvancedGlassFilter.
GlassFilter(ds, ai, mode) == AdvancedGlassFilter(ds, ai, mode)

\* The displacement maps a mode stands for, at the default size.
StaticMap(mode) == Url("static", mode, DefaultSize, DefaultSize)

\* generateShaderDisplacementMap: the data URL of the generated shader map.
generateShaderDisplacementMap == Url("png", "shader", DefaultSize, DefaultSize)

\* getMap of part_003, which index.tsx imports: shaderMapUrl || displacementMap
getMapOrStandard(mode, url) ==
    IF mode = "shader" THEN (IF Truthy(url) THEN url ELSE StaticMap("standard"))
    ELSE StaticMap(mode)

\* getMap of part_007: shaderMapUrl ?? getDisplacementMap().  The state it is
\* given is a string, never null or undefined.
getMapUnlessNullish(mode, url) ==
    IF mode = "shader" THEN url ELSE StaticMap(mode)

\* The href component c gives its feImage.
RenderHref(c, mode, url) ==
    CASE c = "GlassFilter" -> getMapUnlessNullish(mode, url)
      [] c = "AdvancedGlassFilter" -> getMapOrStandard(mode, url)
      [] OTHER -> StaticMap(mode)

\* The primitives component c renders for its props.
RenderFilter(c, mode, ds, ai) ==
    CASE c = "GlassFilter (conditional aberration)" -> GlassFilterConditional(ds, ai)
      [] c = "GlassFilter (masked aberration)" -> GlassFilterMasked(ds, ai)
      [] c = "GlassFilter" -> GlassFilter(ds, ai, mode)
      [] c = "AdvancedGlassFilter" -> AdvancedGlassFilter(ds, ai, mode)

FilterState(c, mode, ds, ai) ==
    /\ filterComponent = c
    /\ filterMode = mode
    /\ displacementScale = ds
    /\ aberrationIntensity = ai
    /\ filterGraph = RenderFilter(c, mode, ds, ai)
    /\ shaderMapUrl = EmptyString
    /\ shaderEffectPending = (mode = "shader")
    /\ feImageHref = RenderHref(c, mode, EmptyString)

\* The defaults of EnhancedLiquidGlass: mode = "standard", displacementScale = 70,
\* aberrationIntensity = 2.
IdleFilter == FilterState("AdvancedGlassFilter", "standard", 70, 2)

\* The first render of a filter component, in the default mode or in shader
\* mode where it has one; shaderMapUrl is useState("").
InitFilter ==
    \E c \in FilterComponents :
        \E mode \in FilterModes(c) \cap {"standard", "shader"} :
            FilterState(c, mode, 70, 2)

\* The props change and the component renders again.
SetDisplacementScale(ds) ==
    /\ ds # displacementScale
    /\ displacementScale' = ds
    /\ filterGraph' = RenderFilter(filterComponent, filterMode, ds, aberrationIntensity)
    /\ UNCHANGED <<filterComponent, filterMode, aberrationIntensity, shaderMapUrl,
                   shaderEffectPending, feImageHref, notFilterVars>>

SetAberrationIntensity(ai) ==
    /\ ai # aberrationIntensity
    /\ aberrationIntensity' = ai
    /\ filterGraph' = RenderFilter(filterComponent, filterMode, displacementScale, ai)
    /\ UNCHANGED <<filterComponent, filterMode, displacementScale, shaderMapUrl,
                   shaderEffectPending, feImageHref, notFilterVars>>

SetFilterMode(mode) ==
    /\ mode # filterMode
    /\ filterMode' = mode
    /\ filterGraph' = RenderFilter(filterComponent, mode, displacementScale, aberrationIntensity)
    /\ feImageHref' = RenderHref(filterComponent, mode, shaderMapUrl)
    /\ shaderEffectPending' = (mode = "shader")
    /\ UNCHANGED <<filterComponent, displacementScale, aberrationIntensity, shaderMapUrl,
                   notFilterVars>>

\* The effect on [mode, glassSize]: in shader mode it generates the shader
\* map and stores it, and the panel renders again.
GenerateShaderMap ==
    /\ shaderEffectPending
    /\ shaderEffectPending' = FALSE
    /\ shaderMapUrl' = generateShaderDisplacementMap
    /\ feImageHref' = RenderHref(filterComponent, filterMode, generateShaderDisplacementMap)
    /\ UNCHANGED <<filterComponent, filterMode, displacementScale, aberrationIntensity,
                   filterGraph, notFilterVars>>

NextFilter ==
    \/ \E ds \in DisplacementScales : SetDisplacementScale(ds)
    \/ \E ai \in AberrationIntensities : SetAberrationIntensity(ai)
    \/ \E mode \in FilterModes(filterComponent) : SetFilterMode(mode)
    \/ GenerateShaderMap

\* ---- claims about the filters

Stages == {filterGraph[i] : i \in 1..Len(filterGraph)}

\* A primitive that leaves the image it is given as it is.
IsIdentityStage(s) ==
    CASE s.element = "feDisplacementMap" -> s.scale = 0
      [] s.element = "feOffset" -> s.dx = 0 /\ s.dy = 0
      [] s.element = "feGaussianBlur" -> s.stdDeviation = 0
      [] s.element = "feComposite" -> s.operator # "in"
      [] OTHER -> TRUE

\* C18: with displacementScale = 0 and aberrationIntensity = 0 every stage of
\* the filter graph is the identity: zero displacement, zero channel offsets,
\* no blur and no mask change, in every filter implementation.
C18_DisabledEffectIsIdentity ==
    (displacementScale = 0 /\ aberrationIntensity = 0)
    => \A s \in Stages : IsIdentityStage(s)

\* A primitive of the per-channel pass: a channel split or a recombination.
IsChannelStage(s) ==
    \/ s.element = "feColorMatrix" /\ s.keeps \in {"R", "G", "B"}
    \/ s.element = "feBlend"
    \/ s.element = "feComposite" /\ s.operator = "arithmetic"

\* C19: when aberrationIntensity is 0 the filter graph contains no channel
\* split, offset or recombination stage, in every filter implementation.
C19_NoChannelPassWithoutAberration ==
    aberrationIntensity = 0 => \A s \in Stages : ~IsChannelStage(s)

\* C30: in shader mode the feImage is given the generated shader map once it
\* exists and the standard map before that, the first render with
\* shaderMapUrl = "" included; never an empty URL.
C30_ShaderModeHasMap ==
    filterMode = "shader"
    => feImageHref = IF Truthy(shaderMapUrl) THEN shaderMapUrl ELSE StaticMap("standard")

(***************************************************************************)
(* The panel's position: the position state of useGlassBehavior, its drag  *)
(* handlers and its window-resize handler.                                 *)
(***************************************************************************)
MaxDrags == 2

NoPosition == [x |-> Undefined, y |-> Undefined, passed |-> FALSE]

\* The initialPosition prop: not passed, {}, { x: 20 } and { x: 20, y: 30 }.
InitialPositions ==
    {NoPosition,
     [x |-> Undefined, y |-> Undefined, passed |-> TRUE],
     [x |-> 20, y |-> Undefined, passed |-> TRUE],
     [x |-> 20, y |-> 30, passed |-> TRUE]}

\* window.innerWidth and innerHeight: a desktop window, and one narrower than
\* the panel and its margins.
Viewports == {[width |-> 400, height |-> 300], [width |-> 110, height |-> 60]}

PanelSizes == {[width |-> 100, height |-> 50], [width |-> 150, height |-> 80]}

\* clientX and clientY of the mouse events of a drag.
DragXs == {100, 101, 160}

DragYs == {100}

\* e.target of a mousedown: the panel, or a form control in it.
Targets == {"DIV", "BUTTON"}

NoDrag == [active |-> FALSE]

NoPress == [pressed |-> FALSE]

NoMove == [received |-> FALSE]

NoConstrainCall == [called |-> FALSE]

\* The listeners handleMouseDown registers on the document.
DragListeners == {"mousemove", "mouseup"}

\* const offset = 10
offset == 10

\* constrainPosition of utils
constrainPosition(x, y, w, h, o) ==
    LET minX == o
        maxX == viewport.width - w - o
        minY == o
        maxY == viewport.height - h - o
    IN  Vec2(Max(minX, Min(maxX, x)), Max(minY, Min(maxY, y)))

\* The initial position state.
InitialPositionState(p) ==
    [x |-> OrElse(p.x, 0),
     y |-> OrElse(p.y, 0),
     centered |-> (~p.passed \/ (p.x = Undefined /\ p.y = Undefined))]

\* containerRef.current.getBoundingClientRect(): a centered panel sits in the
\* middle of the viewport, any other at its position.
ContainerRect ==
    IF position.centered
    THEN [left |-> (viewport.width - panelSize.width) \div 2,
          top |-> (viewport.height - panelSize.height) \div 2]
    ELSE [left |-> position.x, top |-> position.y]

PositionState(p, d) ==
    /\ initialPosition = p
    /\ draggable = d
    /\ position = InitialPositionState(p)
    /\ drag = NoDrag
    /\ viewport = [width |-> 400, height |-> 300]
    /\ panelSize = [width |-> 100, height |-> 50]
    /\ dragMoved = FALSE
    /\ dragCount = 0
    /\ lastPositionEvent = "mount"
    /\ dragActive = FALSE
    /\ listeners = {}
    /\ press = NoPress
    /\ lastDragMove = NoMove
    /\ constrainCall = NoConstrainCall

IdlePosition == PositionState(NoPosition, TRUE)

InitPosition == \E p \in InitialPositions, d \in BOOLEAN : PositionState(p, d)

\* handleMouseDown: a mousedown on the panel.  The handlers it registers keep
\* the position.centered and the constrainPos of this render.  The event is
\* delivered to the element containerRef holds, so its rect is there.
handleMouseDown(x, y, target) ==
    /\ drag = NoDrag
    /\ dragCount < MaxDrags
    /\ dragCount' = dragCount + 1
    /\ lastPositionEvent' = "mousedown"
    /\ IF draggable /\ target \notin {"INPUT", "BUTTON", "TEXTAREA", "SELECT"}
       THEN /\ drag' = [active |-> TRUE, startX |-> x, startY |-> y,
                        initialX |-> ContainerRect.left, initialY |-> ContainerRect.top,
                        hasMoved |-> FALSE, centered |-> position.centered,
                        size |-> panelSize]
            /\ dragActive' = TRUE
            /\ listeners' = listeners \cup DragListeners
            /\ press' = [pressed |-> TRUE, position |-> position, beyond |-> FALSE]
            /\ lastDragMove' = NoMove
       ELSE UNCHANGED <<drag, dragActive, listeners, press, lastDragMove>>
    /\ UNCHANGED <<initialPosition, draggable, position, viewport, panelSize, dragMoved,
                   constrainCall, notPositionVars>>

\* handleDragMove with setPosition keeping the centered flag.
handleDragMoveKeepingCentered(x, y) ==
    LET deltaX == x - drag.startX
        deltaY == y - drag.startY
        constrained == constrainPosition(drag.initialX + deltaX, drag.initialY + deltaY,
                                         drag.size.width, drag.size.height, offset)
    IN  IF Abs(deltaX) > 1 \/ Abs(deltaY) > 1
        THEN /\ drag' = [drag EXCEPT !.hasMoved = TRUE]
             /\ position' = [x |-> constrained.x, y |-> constrained.y,
                             centered |-> position.centered]
             /\ dragMoved' = TRUE
        ELSE UNCHANGED <<drag, position, dragMoved>>

\* handleDragMove without the movement threshold.
handleDragMoveAnyDelta(x, y) ==
    LET deltaX == x - drag.startX
        deltaY == y - drag.startY
        constrained == constrainPosition(drag.initialX + deltaX, drag.initialY + deltaY,
                                         drag.size.width, drag.size.height, offset)
    IN  /\ drag' = [drag EXCEPT !.hasMoved = TRUE]
        /\ position' = [x |-> constrained.x, y |-> constrained.y, centered |-> FALSE]
        /\ dragMoved' = TRUE

\* handleDragMove: a mousemove on the document during the drag.
handleDragMove(x, y) ==
    LET deltaX == x - drag.startX
        deltaY == y - drag.startY
        constrained == constrainPosition(drag.initialX + deltaX, drag.initialY + deltaY,
                                         drag.size.width, drag.size.height, offset)
    IN  IF Abs(deltaX) > 1 \/ Abs(deltaY) > 1
        THEN /\ drag' = [drag EXCEPT !.hasMoved = TRUE]
             /\ position' = [x |-> constrained.x, y |-> constrained.y, centered |-> FALSE]
             /\ dragMoved' = TRUE
        ELSE UNCHANGED <<drag, position, dragMoved>>

\* A mousemove on the document: it runs the handleDragMove registered for it.
DragMove(x, y) ==
    LET deltaX == x - drag.startX
        deltaY == y - drag.startY
        beyond == Abs(deltaX) > 1 \/ Abs(deltaY) > 1
        newX == drag.initialX + deltaX
        newY == drag.initialY + deltaY
        constrained == constrainPosition(newX, newY, drag.size.width, drag.size.height,
                                         offset)
    IN  /\ "mousemove" \in listeners
        /\ drag # NoDrag
        /\ handleDragMove(x, y)
        /\ lastPositionEvent' = "mousemove"
        /\ press' = [press EXCEPT !.beyond = @ \/ beyond]
        /\ lastDragMove' = [received |-> TRUE, clientX |-> x, clientY |-> y,
                        constrained |-> constrained]
        /\ constrainCall' = IF beyond
                            THEN [called |-> TRUE, width |-> drag.size.width,
                                  height |-> drag.size.height, viewport |-> viewport,
                                  result |-> constrained]
                            ELSE constrainCall
        /\ UNCHANGED <<initialPosition, draggable, viewport, panelSize, dragCount,
                       dragActive, listeners, notPositionVars>>

\* handleDragEnd leaving its listeners on the document.
handleDragEndKeepingListeners ==
    /\ dragActive' = FALSE
    /\ drag' = NoDrag
    /\ UNCHANGED listeners

\* handleDragEnd: setIsDragging(false) and the removal of both listeners.
handleDragEnd ==
    /\ dragActive' = FALSE
    /\ drag' = NoDrag
    /\ listeners' = listeners \ DragListeners

\* A mouseup on the document: it runs the handleDragEnd registered for it.
DragEnd ==
    /\ "mouseup" \in listeners
    /\ drag # NoDrag
    /\ handleDragEnd
    /\ lastPositionEvent' = "mouseup"
    /\ UNCHANGED <<initialPosition, draggable, position, viewport, panelSize, dragMoved,
                   dragCount, press, lastDragMove, constrainCall, notPositionVars>>

\* handleResize: the window takes a new size and fires resize.
handleResize(v) ==
    /\ v # viewport
    /\ viewport' = v
    /\ lastPositionEvent' = "resize"
    /\ IF ~position.centered
       THEN LET minX == offset
                maxX == v.width - panelSize.width - offset
                minY == offset
                maxY == v.height - panelSize.height - offset
                cx == Max(minX, Min(maxX, position.x))
                cy == Max(minY, Min(maxY, position.y))
            IN  /\ IF position.x # cx \/ position.y # cy
                   THEN position' = [x |-> cx, y |-> cy, centered |-> FALSE]
                   ELSE UNCHANGED position
                /\ constrainCall' = [called |-> TRUE, width |-> panelSize.width,
                                     height |-> panelSize.height, viewport |-> v,
                                     result |-> Vec2(cx, cy)]
       ELSE UNCHANGED <<position, constrainCall>>
    /\ press' = IF press = NoPress THEN press ELSE [press EXCEPT !.position = position']
    /\ UNCHANGED <<initialPosition, draggable, drag, panelSize, dragMoved, dragCount,
                   dragActive, listeners, lastDragMove, notPositionVars>>

\* updateGlassSize measured the content again and stored a new glassSize.
Remeasure(size) ==
    /\ size # panelSize
    /\ panelSize' = size
    /\ lastPositionEvent' = "measure"
    /\ UNCHANGED <<initialPosition, draggable, position, drag, viewport, dragMoved,
                   dragCount, dragActive, listeners, press, lastDragMove, constrainCall,
                   notPositionVars>>

NextPosition ==
    \/ \E x \in DragXs, y \in DragYs, target \in Targets :
          handleMouseDown(x, y, target)
    \/ \E x \in DragXs, y \in DragYs : DragMove(x, y)
    \/ DragEnd
    \/ \E v \in Viewports : handleResize(v)
    \/ \E size \in PanelSizes : Remeasure(size)

\* ---- claims about the position

\* C20: a panel created without an initial position is centered until its
\* first processed drag movement, which sets centered to false; no other
\* event does, and centered never becomes true again.
C20_CenteredUntilFirstDrag ==
    ~initialPosition.passed => (position.centered <=> ~dragMoved)

\* C20 witness: the panel was created without an initial position, was
\* dragged, and a window resize was handled after the drag.
C20_Witness ==
    /\ ~initialPosition.passed
    /\ dragMoved
    /\ ~position.centered
    /\ lastPositionEvent = "resize"

\* C22: the result of constrainPosition(x, y, width, height, offset) satisfies
\* offset <= x' <= viewportWidth - width - offset and
\* offset <= y' <= viewportHeight - height - offset, for every input and every
\* viewport size.
C22_ConstrainedWithinViewport ==
    constrainCall.called
    => LET c == constrainCall
       IN  /\ offset <= c.result.x
           /\ c.result.x <= c.viewport.width - c.width - offset
           /\ offset <= c.result.y
           /\ c.result.y <= c.viewport.height - c.height - offset

\* C24: a press-and-release in which no mousemove is more than 1 px from the
\* mousedown point in either axis leaves position.x, position.y and
\* position.centered unchanged; only isDragging changes.
C24_PositionKeptWithoutMovement ==
    (press.pressed /\ ~press.beyond) => position = press.position

\* C24 witness: a press received a mousemove 1 px from the mousedown point
\* and was released.
C24_Witness ==
    /\ press.pressed
    /\ ~press.beyond
    /\ lastDragMove.received
    /\ lastPositionEvent = "mouseup"
    /\ ~dragActive

C26_PositionOfLastMove ==
    (lastPositionEvent = "mouseup" /\ lastDragMove.received)
    => (ContainerRect.left = lastDragMove.constrained.x
        /\ ContainerRect.top = lastDragMove.constrained.y)

(***************************************************************************)
(* Specifications: each starts one part of the program from its initial    *)
(* state or its inputs and leaves the other parts alone.                   *)
(***************************************************************************)
InitCache == InitMaps /\ IdlePointer /\ IdleSize /\ IdleRaster /\ IdleElastic /\ IdleFilter /\ IdlePosition

SpecCache == InitCache /\ [][NextCache]_vars

SpecGetMap == InitCache /\ [][NextGetMap]_vars

InitTracking == InitMaps /\ InitPointer /\ IdleSize /\ IdleRaster /\ IdleElastic /\ IdleFilter /\ IdlePosition

SpecPointer == InitTracking /\ [][NextPointer]_vars

InitResize == InitMaps /\ IdlePointer /\ InitSize /\ IdleRaster /\ IdleElastic /\ IdleFilter /\ IdlePosition

SpecResize == InitResize /\ [][NextSize]_vars

InitMeasuring == InitMaps /\ IdlePointer /\ InitAutoSize /\ IdleRaster /\ IdleElastic /\ IdleFilter /\ IdlePosition

SpecAutoSize == InitMeasuring /\ [][NextAutoSize]_vars

InitField == InitMaps /\ IdlePointer /\ IdleSize /\ InitRaster /\ IdleElastic /\ IdleFilter /\ IdlePosition

SpecRaster == InitField /\ [][NextRaster]_vars

InitEstimator == InitMaps /\ IdlePointer /\ IdleSize /\ IdleRaster /\ InitElastic /\ IdleFilter /\ IdlePosition

SpecElastic == InitEstimator /\ [][NextElastic]_vars

InitFilters == InitMaps /\ IdlePointer /\ IdleSize /\ IdleRaster /\ IdleElastic /\ InitFilter /\ IdlePosition

SpecFilter == InitFilters /\ [][NextFilter]_vars

InitBehavior == InitMaps /\ IdlePointer /\ IdleSize /\ IdleRaster /\ IdleElastic /\ IdleFilter /\ InitPosition

SpecPosition == InitBehavior /\ [][NextPosition]_vars
====
